---- MODULE Spec2Model ----
(***************************************************************************)
(* The outbound request pipeline of luma_mcp: the sliding-window           *)
(* RateLimiter of src/utils/rate_limiter.py, LumaClient._make_request of   *)
(* src/luma_client.py, and the routes of src/routes and src/main.py that   *)
(* call it.  Time is counted in whole seconds.  Coroutines                 *)
(* run under asyncio: a coroutine runs without interruption from one       *)
(* suspension (asyncio.sleep, the HTTP call) to the next, so every action  *)
(* below is the code executed between two suspensions.                     *)
(***************************************************************************)
EXTENDS Integers, Sequences, FiniteSets, TLC

(* ---------------------------- bounds ----------------------------------- *)
\* last instant of the clock
MaxTime == 7
\* longest duration handed to block_key
MaxBlock == 2
\* largest max_requests handed to a direct can_make_request call
MaxQuota == 2
\* longest log a direct record_request call may extend
MaxLog == 2
\* the duration handed to block_key where a block has to outlast a whole wait
LongBlock == 3000
\* the most timestamps other callers record on a key before an operation starts
LongLog == 9

(* --------- settings (src/config.py, environment-configurable) ---------- *)
\* Settings.rate_limit_get_requests (default 500), scaled down
rate_limit_get_requests == 2
\* Settings.rate_limit_post_requests (default 100), scaled down
rate_limit_post_requests == 1
\* Settings.rate_limit_window_seconds (default 300), scaled down
rate_limit_window_seconds == 2
\* Settings.max_retries (default 3), scaled down
max_retries == 2
\* Settings.retry_backoff_factor
retry_backoff_factor == 2

(* ------------------------ literals of the code ------------------------- *)
\* "min(..., 300)  # Max 5 minutes"
max_backoff == 300
\* max_total_wait in wait_if_needed
max_total_wait == 600
\* the poll interval asyncio.sleep(1) of wait_if_needed
poll_interval == 1
\* response.status_code == 429
TOO_MANY_REQUESTS == 429
\* status_code: Optional[int] = None
NoStatus == -1
\* datetime.MAXYEAR
MAXYEAR == 9999

\* the logical operations; Solo is the one that runs where one is enough
Ops == {"o1", "o2"}
Solo == {"o1"}
\* the endpoints the wrappers of LumaClient build, for the event "evt-1"
Keys == {"event/create", "user/get-self", "user/events", "event/get/evt-1",
         "event/update/evt-1", "event/delete/evt-1"}
\* the endpoints handed to _make_request where the route does not matter
ClientKeys == {"event/create", "user/get-self"}
Tiers == {"get", "post"}
Methods == {"GET", "get", "POST", "PUT", "DELETE", "PATCH"}
LimiterMethods == {"POST"}
LimiterTiers == {"post"}
LimiterKeys == {"event/create"}
Statuses == {200, 204, 302, 404, 429, 500}
Bodies == {"obj_with_message", "obj_without_message", "array", "not_json"}
Causes == {"connection refused"}

Min(a, b) == IF a < b THEN a ELSE b

RECURSIVE Pow(_, _)
\* Python's  base ** n  for n >= 0
Pow(base, n) == IF n = 0 THEN 1 ELSE base * Pow(base, n - 1)

\* str.upper() on the method names in use
upper(m) ==
    CASE m = "get" -> "GET"
      [] OTHER -> m

(* ----------------------------- config --------------------------------- *)
\* the characters str.strip() removes, of those the keys in use hold
Whitespace == {" ", "\t"}

RECURSIVE lstrip(_)
lstrip(s) == IF s # << >> /\ Head(s) \in Whitespace THEN lstrip(Tail(s)) ELSE s

RECURSIVE rstrip(_)
rstrip(s) ==
    IF s # << >> /\ s[Len(s)] \in Whitespace
    THEN rstrip(SubSeq(s, 1, Len(s) - 1))
    ELSE s

\* str.strip() on a string given as the sequence of its characters
strip(s) == rstrip(lstrip(s))

\* a validation that only asks for a non-empty string
validate_api_key_nonempty(key) == key # << >>

\* validate_api_key: bool(settings.luma_api_key and settings.luma_api_key.strip())
validate_api_key(key) == key # << >> /\ strip(key) # << >>

\* values of LUMA_API_KEY: unset or empty, blank, and two keys
ApiKeys == {<< >>, <<" ">>, <<" ", "\t">>, <<"s", "k">>, <<" ", "s", "k", " ">>}

\* the key of a server that has started (main and lifespan refuse any other)
ServingKey == <<"s", "k">>

(* ------------------------- RateLimiter --------------------------------- *)
\* RateLimiter.__init__: requests is a defaultdict(list), blocked_until a dict
NewLimiter == [requests |-> [k \in Keys |-> << >>], blocked_until |-> [k \in {} |-> 0]]

\* a pruning that also drops the entries of the window's oldest second
InWindowEager(log, cutoff_time) ==
    SelectSeq(log, LAMBDA req_time : req_time > cutoff_time + 1)

\* the list comprehension of _clean_old_requests
InWindow(log, cutoff_time) == SelectSeq(log, LAMBDA req_time : req_time > cutoff_time)

\* a pruning whose result is never stored
clean_old_requests_lost(lim, key, window_seconds, t) == lim

\* _clean_old_requests at clock reading t
clean_old_requests(lim, key, window_seconds, t) ==
    [lim EXCEPT !.requests[key] = InWindow(@, t - window_seconds)]

\* a block that holds until a check has found its entry
is_blocked_forever(lim, key, t) == key \in DOMAIN lim.blocked_until

\* a block that ends one second early
is_blocked_early(lim, key, t) ==
    key \in DOMAIN lim.blocked_until /\ t + 1 < lim.blocked_until[key]

\* the value _is_blocked returns at clock reading t
is_blocked(lim, key, t) ==
    key \in DOMAIN lim.blocked_until /\ t < lim.blocked_until[key]

\* a check that deletes the entry of the key whether it has expired or not
is_blocked_effect_always(lim, key, t) ==
    [lim EXCEPT !.blocked_until =
        [k \in (DOMAIN lim.blocked_until) \ {key} |-> lim.blocked_until[k]]]

\* the limiter after _is_blocked: an expired entry is deleted
is_blocked_effect(lim, key, t) ==
    IF key \in DOMAIN lim.blocked_until /\ ~(t < lim.blocked_until[key])
    THEN [lim EXCEPT !.blocked_until =
              [k \in (DOMAIN lim.blocked_until) \ {key} |-> lim.blocked_until[k]]]
    ELSE lim

\* an admission test that lets the log reach max_requests + 1 entries
can_make_request_inclusive(lim, key, max_requests, window_seconds, t) ==
    IF is_blocked(lim, key, t)
    THEN [ret |-> FALSE, lim |-> is_blocked_effect(lim, key, t)]
    ELSE LET cleaned == clean_old_requests(is_blocked_effect(lim, key, t),
                                           key, window_seconds, t)
         IN [ret |-> Len(cleaned.requests[key]) <= max_requests, lim |-> cleaned]

\* can_make_request at clock reading t: the value returned and the limiter left
can_make_request(lim, key, max_requests, window_seconds, t) ==
    IF is_blocked(lim, key, t)
    THEN [ret |-> FALSE, lim |-> is_blocked_effect(lim, key, t)]
    ELSE LET cleaned == clean_old_requests(is_blocked_effect(lim, key, t),
                                           key, window_seconds, t)
         IN [ret |-> Len(cleaned.requests[key]) < max_requests, lim |-> cleaned]

\* a record_request that puts the current time at the head of the log
record_request_first(lim, key, t) ==
    [lim EXCEPT !.requests[key] = <<t>> \o @]

\* record_request at clock reading t
record_request(lim, key, t) ==
    [lim EXCEPT !.requests[key] = Append(@, t)]

\* block_key at clock reading t
block_key(lim, key, duration_seconds, t) ==
    [lim EXCEPT !.blocked_until =
        [k \in (DOMAIN lim.blocked_until) \cup {key} |->
            IF k = key THEN t + duration_seconds ELSE lim.blocked_until[k]]]

\* a blocked sleep without the cap
wait_time_uncapped(lim, key, t) ==
    IF is_blocked(lim, key, t)
    THEN Pow(retry_backoff_factor, Len(lim.requests[key]))
    ELSE poll_interval

\* the sleep chosen by one denied iteration of wait_if_needed (lines 59-65)
wait_time(lim, key, t) ==
    IF is_blocked(lim, key, t)
    THEN Min(Pow(retry_backoff_factor, Len(lim.requests[key])), max_backoff)
    ELSE poll_interval

\* a wait that records the request itself when it admits it
wait_if_needed_recording(lim, key, max_requests, window_seconds, t, wc) ==
    LET c == can_make_request(lim, key, max_requests, window_seconds, t)
    IN IF c.ret
       THEN [out |-> "admitted", lim |-> record_request(c.lim, key, t), sleep |-> 0]
       ELSE IF wc * 1 > max_total_wait
            THEN [out |-> "timeout", lim |-> c.lim, sleep |-> 0]
            ELSE [out |-> "sleep",
                  lim |-> is_blocked_effect(c.lim, key, t),
                  sleep |-> wait_time(c.lim, key, t)]

\* a wait without the budget test: it never raises
wait_if_needed_patient(lim, key, max_requests, window_seconds, t, wc) ==
    LET c == can_make_request(lim, key, max_requests, window_seconds, t)
    IN IF c.ret
       THEN [out |-> "admitted", lim |-> c.lim, sleep |-> 0]
       ELSE [out |-> "sleep",
             lim |-> is_blocked_effect(c.lim, key, t),
             sleep |-> wait_time(c.lim, key, t)]

\* one iteration of the while loop of wait_if_needed at clock reading t, entered
\* with wait_count = wc: admitted (the loop ends), timeout (the raise) or sleep
wait_if_needed(lim, key, max_requests, window_seconds, t, wc) ==
    LET c == can_make_request(lim, key, max_requests, window_seconds, t)
    IN IF c.ret
       THEN [out |-> "admitted", lim |-> c.lim, sleep |-> 0]
       ELSE IF wc * 1 > max_total_wait
            THEN [out |-> "timeout", lim |-> c.lim, sleep |-> 0]
            ELSE [out |-> "sleep",
                  lim |-> is_blocked_effect(c.lim, key, t),
                  sleep |-> wait_time(c.lim, key, t)]

\* a choice that sends every method to the write-tier limiter
TierOf_write(method) == "post"

\* rate_limit_request chooses the limiter and the quota by method
TierOf(method) == IF upper(method) = "GET" THEN "get" ELSE "post"
QuotaOf(tier) == IF tier = "get" THEN rate_limit_get_requests
                 ELSE rate_limit_post_requests

(* ---------------------- LumaClient._make_request ----------------------- *)
\* Python's None where a parsed JSON value is expected
NoData == [type |-> "None", has_message |-> FALSE, message |-> << >>]

\* response.json(): the decoded body, or raises (json.JSONDecodeError)
json(body) ==
    CASE body = "obj_with_message" ->
            [raises |-> FALSE,
             value |-> [type |-> "dict", has_message |-> TRUE,
                        message |-> <<"event is full">>]]
      [] body = "obj_without_message" ->
            [raises |-> FALSE,
             value |-> [type |-> "dict", has_message |-> FALSE, message |-> << >>]]
      [] body = "array" ->
            [raises |-> FALSE,
             value |-> [type |-> "list", has_message |-> FALSE, message |-> << >>]]
      [] OTHER -> [raises |-> TRUE, value |-> NoData]

\* a success test that takes a redirect for a success
is_success_or_redirect(status) == 200 <= status /\ status <= 399

\* httpx.Response.is_success: true for the 2xx statuses only
is_success(status) == 200 <= status /\ status <= 299

\* f"API Error: {response.status_code}"
ApiErrorMessage(status) == <<"API Error: ", ToString(status)>>

\* LumaAPIError(message, status_code, response_data) raised to the caller
LumaAPIError(message, status_code, response_data) ==
    [exc |-> "LumaAPIError", message |-> message, status_code |-> status_code,
     response_data |-> response_data, ret |-> NoData]

\* any other exception leaving _make_request
OtherError(exc, message) ==
    [exc |-> exc, message |-> message, status_code |-> NoStatus,
     response_data |-> NoData, ret |-> NoData]

\* the value _make_request returns
Returned(value) ==
    [exc |-> "none", message |-> << >>, status_code |-> NoStatus,
     response_data |-> NoData, ret |-> value]

\* an operation that has not resolved
Pending ==
    [exc |-> "pending", message |-> << >>, status_code |-> NoStatus,
     response_data |-> NoData, ret |-> NoData]

\* a backoff that starts one power too high
backoff_next_power(retry_count) ==
    Min(Pow(retry_backoff_factor, retry_count + 1), max_backoff)

\* min(settings.retry_backoff_factor ** retry_count, 300)
backoff(retry_count) == Min(Pow(retry_backoff_factor, retry_count), max_backoff)

\* a retry test that allows one retry more
may_retry_inclusive(retry_count) == retry_count <= max_retries

\* a retry test that allows one retry less
may_retry_short(retry_count) == retry_count + 1 < max_retries

\* retry_count < settings.max_retries, the test of both retry branches
may_retry(retry_count) == retry_count < max_retries

\* an error that never reads the message of the body
error_response_generic(status, body) ==
    LumaAPIError(ApiErrorMessage(status), status,
                 IF json(body).raises THEN NoData ELSE json(body).value)

\* an except clause that takes every httpx.RequestError for a timeout
is_timeout_any(res) == res.kind \in {"timeout", "request_error"}

\* except httpx.TimeoutException: the clause tried first
is_timeout(res) == res.kind = "timeout"

\* lines 74-83: the error raised for a response that is not a success
error_response(status, body) ==
    LET j == json(body)
        error_data == IF j.raises THEN NoData ELSE j.value
        \* error_data.get raises on a value that is no dict; the bare except
        \* then sets the generic message and keeps error_data
        error_msg == IF ~j.raises /\ j.value.type = "dict" /\ j.value.has_message
                     THEN j.value.message
                     ELSE ApiErrorMessage(status)
    IN LumaAPIError(error_msg, status, error_data)

\* lines 64-96: what _make_request does with the result of the HTTP call made
\* with the given retry_count: retry after a sleep, or resolve
on_result(res, retry_count) ==
    CASE res.kind = "response" /\ res.status = TOO_MANY_REQUESTS ->
            IF may_retry(retry_count)
            THEN [next |-> "retry", sleep |-> backoff(retry_count), outcome |-> Pending]
            ELSE [next |-> "resolve", sleep |-> 0,
                  outcome |-> LumaAPIError(
                      <<"Rate limit exceeded and max retries reached">>,
                      TOO_MANY_REQUESTS, NoData)]
      [] res.kind = "response" /\ res.status # TOO_MANY_REQUESTS ->
            IF ~is_success(res.status)
            THEN [next |-> "resolve", sleep |-> 0,
                  outcome |-> error_response(res.status, res.body)]
            ELSE IF json(res.body).raises
                 THEN [next |-> "resolve", sleep |-> 0,
                       outcome |-> OtherError("JSONDecodeError", <<"invalid JSON">>)]
                 ELSE [next |-> "resolve", sleep |-> 0,
                       outcome |-> Returned(json(res.body).value)]
      [] is_timeout(res) ->
            IF may_retry(retry_count)
            THEN [next |-> "retry", sleep |-> backoff(retry_count), outcome |-> Pending]
            ELSE [next |-> "resolve", sleep |-> 0,
                  outcome |-> LumaAPIError(
                      <<"Request timeout and max retries reached">>, NoStatus, NoData)]
      [] OTHER ->
            [next |-> "resolve", sleep |-> 0,
             outcome |-> LumaAPIError(<<"Request failed: ", res.cause>>,
                                      NoStatus, NoData)]

\* a dispatch with a branch for every method
Supported_any(method) == TRUE

\* the methods _make_request has a branch for
Supported(method) == upper(method) \in {"GET", "POST", "PUT", "DELETE"}

\* what the HTTP call of one attempt can end in
Results ==
    [kind : {"response"}, status : Statuses, body : Bodies, cause : {""}]
    \cup [kind : {"timeout"}, status : {0}, body : {""}, cause : {""}]
    \cup [kind : {"request_error"}, status : {0}, body : {""}, cause : Causes]

(* ------------------------------ state ---------------------------------- *)
VARIABLES
    luma_api_key, \* settings.luma_api_key, as the sequence of its characters
    now,          \* time.time()
    limiter,      \* get_limiter and post_limiter
    op,           \* the logical operations: one _make_request call chain each
    hist,         \* per operation: what it did, in order
    last,         \* the can_make_request call of the last step, if it made one
    allRecorded,  \* per tier and key: every timestamp record_request appended
    blockCalls    \* per tier and key, of the block_key calls made at t0 for D
                  \* seconds: t0 + D of the latest call, and the largest t0 + D

vars == <<luma_api_key, now, limiter, op, hist, last, allRecorded, blockCalls>>

\* one entry of hist: "admit", "record", "issue" (v the retry_count), "sleep" (v
\* the seconds of a retry backoff), or the result of an HTTP call: "response"
\* (v the status, b the body), "timeout", "request_error" (b the cause)
Event(e, v, b) == [e |-> e, v |-> v, b |-> b]

\* no can_make_request call was made in the last step
NoCall == [tier |-> "", key |-> "", max_requests |-> 0, window_seconds |-> 0,
           ret |-> FALSE, by |-> "", blocked |-> FALSE, recorded |-> << >>]

\* the can_make_request call made in this step, with what held when it was made:
\* whether blocked_until held the key with a later time, and the timestamps
\* recorded for the key so far
Call(tier, key, max_requests, window_seconds, ret, by) ==
    [tier |-> tier, key |-> key, max_requests |-> max_requests,
     window_seconds |-> window_seconds, ret |-> ret, by |-> by,
     blocked |-> (key \in DOMAIN limiter[tier].blocked_until
                  /\ now < limiter[tier].blocked_until[key]),
     recorded |-> allRecorded[tier][key]]

\* a time of day on a date, as datetime holds it: tz is the UTC offset as
\* written, "" for a naive time
NoTime == [y |-> 0, mo |-> 0, d |-> 0, h |-> 0, tz |-> ""]

\* data = None: the request carries no payload
NoPayload == [name |-> "", start_at |-> NoTime, timezone |-> "", end_at |-> NoTime,
              require_rsvp_approval |-> FALSE, meeting_url |-> "",
              geo_address_json |-> ""]

\* the request body of a route that is not POST /templates/create
NoRequest == [template_type |-> "", name |-> "", start_at |-> NoTime,
              timezone |-> "", meeting_url |-> "", geo_address_json |-> ""]

\* no response has been sent to the caller of the route
NoResponse == [status |-> 0, detail |-> << >>]

\* the call context of one logical operation: the route that runs it ("" when
\* _make_request is called directly), the request body of create_from_template,
\* the arguments of _make_request, the locals
\* wait_count and wait_time of wait_if_needed, the seconds it has asked to sleep
\* in its current wait, the time its current sleep ends, what _make_request
\* returned or raised, and the response of the route
NewOp == [pc |-> "idle", route |-> "", request |-> NoRequest,
          endpoint |-> "", method |-> "",
          data |-> NoPayload, retry_count |-> 0, wait_count |-> 0, wait_time |-> 0,
          waited |-> 0, wake |-> 0, outcome |-> Pending, response |-> NoResponse]

InitWith(keys) ==
    /\ luma_api_key \in keys
    /\ now = 0
    /\ limiter = [t \in Tiers |-> NewLimiter]
    /\ op = [o \in Ops |-> NewOp]
    /\ hist = [o \in Ops |-> << >>]
    /\ last = NoCall
    /\ allRecorded = [t \in Tiers |-> [k \in Keys |-> << >>]]
    /\ blockCalls = [t \in Tiers |-> [k \in Keys |-> [latest |-> 0, longest |-> 0]]]

\* a server that has started: main() and lifespan have validated the key
Init == InitWith({ServingKey})

\* any process that imports the package, whatever LUMA_API_KEY holds
InitConfig == InitWith(ApiKeys)

(* ----------------------------- actions --------------------------------- *)
\* time passes
Tick ==
    /\ now < MaxTime
    /\ now' = now + 1
    /\ last' = NoCall
    /\ UNCHANGED <<luma_api_key, limiter, op, hist, allRecorded, blockCalls>>

\* the operation resolves: _make_request returns or raises
Resolve(o, outcome, events) ==
    /\ op' = [op EXCEPT ![o].pc = "done", ![o].outcome = outcome]
    /\ hist' = [hist EXCEPT ![o] = @ \o events]

\* rate_limit_request (lines 74-89) from one check of the while loop of
\* wait_if_needed on, and the code of _make_request that follows it up to the
\* HTTP call (lines 43-62).  o runs _make_request(call.endpoint, call.method,
\* call.data, rc) and enters the loop iteration with wait_count = wc.
rate_limit_request(o, call, rc, wc) ==
    LET e == call.endpoint
        m == call.method
        tier == TierOf(m)
        w == wait_if_needed(limiter[tier], e, QuotaOf(tier),
                            rate_limit_window_seconds, now, wc)
        running == [call EXCEPT !.retry_count = rc, !.wait_count = wc,
                                !.waited = IF wc = 0 THEN 0 ELSE @]
        \* wait_if_needed has returned: its locals are gone
        admitted == [running EXCEPT !.wait_time = 0, !.waited = 0]
    IN /\ last' = Call(tier, e, QuotaOf(tier), rate_limit_window_seconds,
                       w.out = "admitted", o)
       /\ CASE w.out = "admitted" ->
                 /\ limiter' = [limiter EXCEPT ![tier] = record_request(w.lim, e, now)]
                 /\ allRecorded' = [allRecorded EXCEPT ![tier][e] = Append(@, now)]
                 /\ IF Supported(m)
                    THEN /\ op' = [op EXCEPT ![o] = [admitted EXCEPT !.pc = "http"]]
                         /\ hist' = [hist EXCEPT ![o] = @ \o
                               <<Event("admit", 0, ""), Event("record", 0, ""),
                                 Event("issue", rc, "")>>]
                    ELSE /\ op' = [op EXCEPT ![o] =
                               [admitted EXCEPT !.pc = "done", !.outcome =
                                   OtherError("ValueError",
                                       <<"Unsupported HTTP method: ", m>>)]]
                         /\ hist' = [hist EXCEPT ![o] = @ \o
                               <<Event("admit", 0, ""), Event("record", 0, "")>>]
            [] w.out = "timeout" ->
                 /\ limiter' = [limiter EXCEPT ![tier] = w.lim]
                 /\ op' = [op EXCEPT ![o] =
                       [running EXCEPT !.pc = "done", !.outcome =
                           OtherError("Exception",
                               <<"Rate limiter timeout: waited too long for ", e>>)]]
                 /\ UNCHANGED <<hist, allRecorded>>
            [] OTHER ->
                 /\ limiter' = [limiter EXCEPT ![tier] = w.lim]
                 /\ op' = [op EXCEPT ![o] =
                       [running EXCEPT !.pc = "wait_sleep", !.wake = now + w.sleep,
                                       !.wait_time = w.sleep,
                                       !.waited = @ + w.sleep]]
                 /\ UNCHANGED <<hist, allRecorded>>

\* retry_count > settings.max_retries, the guard of line 36
retries_exceeded(retry_count) == retry_count > max_retries

\* _make_request(call.endpoint, call.method, call.data, rc) from its entry to
\* its first suspension
make_request(o, call, rc) ==
    IF retries_exceeded(rc)
    THEN /\ op' = [op EXCEPT ![o] = [call EXCEPT !.pc = "done", !.retry_count = rc,
                      !.outcome = LumaAPIError(<<"Maximum retry attempts exceeded">>,
                                               NoStatus, NoData)]]
         /\ last' = NoCall
         /\ UNCHANGED <<limiter, hist, allRecorded>>
    ELSE rate_limit_request(o, call, rc, 0)

\* LumaClient() raises: no client, and no call of _make_request
construction_fails(o, call) ==
    /\ op' = [op EXCEPT ![o] = [call EXCEPT !.pc = "done", !.outcome =
                 OtherError("ValueError",
                            <<"LUMA_API_KEY environment variable is required">>)]]
    /\ last' = NoCall
    /\ UNCHANGED <<limiter, hist, allRecorded>>

\* LumaClient() and then one call of a wrapper: _make_request(endpoint, method,
\* data) with retry_count = 0
client_call(o, call) ==
    IF validate_api_key(luma_api_key)
    THEN make_request(o, call, 0)
    ELSE construction_fails(o, call)

\* a caller makes a client and starts one logical operation on it
Start(o, e, m) ==
    /\ op[o].pc = "idle"
    /\ client_call(o, [op[o] EXCEPT !.endpoint = e, !.method = m])
    /\ UNCHANGED <<luma_api_key, now, blockCalls>>

\* a wake-up that sends o back to sleep unchecked while another operation has
\* waited longer on the same key
WaitWake_queued(o) ==
    /\ op[o].pc = "wait_sleep"
    /\ now >= op[o].wake
    /\ IF \E other \in Ops \ {o} :
              /\ op[other].pc = "wait_sleep"
              /\ op[other].endpoint = op[o].endpoint
              /\ TierOf(op[other].method) = TierOf(op[o].method)
              /\ op[other].wait_count > op[o].wait_count
       THEN /\ op' = [op EXCEPT ![o].wait_count = @ + 1,
                                ![o].wake = now + poll_interval,
                                ![o].waited = @ + poll_interval]
            /\ last' = Call(TierOf(op[o].method), op[o].endpoint,
                            QuotaOf(TierOf(op[o].method)),
                            rate_limit_window_seconds, FALSE, o)
            /\ UNCHANGED <<limiter, hist, allRecorded>>
       ELSE rate_limit_request(o, op[o], op[o].retry_count, op[o].wait_count + 1)
    /\ UNCHANGED <<luma_api_key, now, blockCalls>>

\* asyncio.sleep of wait_if_needed is over: wait_count += 1 and the loop
\* checks again
WaitWake(o) ==
    /\ op[o].pc = "wait_sleep"
    /\ now >= op[o].wake
    /\ rate_limit_request(o, op[o], op[o].retry_count, op[o].wait_count + 1)
    /\ UNCHANGED <<luma_api_key, now, blockCalls>>

\* the event hist keeps for the result of an HTTP call; the body of a 429 is
\* never read and is not kept
ResultEvent(res) ==
    CASE res.kind = "response" /\ res.status = TOO_MANY_REQUESTS ->
            Event("response", res.status, "")
      [] res.kind = "response" /\ res.status # TOO_MANY_REQUESTS ->
            Event("response", res.status, res.body)
      [] res.kind = "request_error" -> Event("request_error", 0, res.cause)
      [] OTHER -> Event(res.kind, 0, "")

\* the HTTP call of o ends in res (lines 64-96)
HttpResult(o, res) ==
    /\ op[o].pc = "http"
    /\ LET r == on_result(res, op[o].retry_count)
       IN IF r.next = "retry"
          THEN /\ op' = [op EXCEPT ![o].pc = "backoff", ![o].wake = now + r.sleep]
               /\ hist' = [hist EXCEPT ![o] = @ \o
                     <<ResultEvent(res), Event("sleep", r.sleep, "")>>]
          ELSE Resolve(o, r.outcome, <<ResultEvent(res)>>)
    /\ last' = NoCall
    /\ UNCHANGED <<luma_api_key, now, limiter, allRecorded, blockCalls>>

\* the backoff sleep is over: _make_request(e, m, data, retry_count + 1)
BackoffWake(o) ==
    /\ op[o].pc = "backoff"
    /\ now >= op[o].wake
    /\ make_request(o, op[o], op[o].retry_count + 1)
    /\ UNCHANGED <<luma_api_key, now, blockCalls>>

\* some caller blocks a key: block_key(key, D) on one of the two limiters
BlockKey(tier, key, D) ==
    /\ limiter' = [limiter EXCEPT ![tier] = block_key(@, key, D, now)]
    /\ blockCalls' = [blockCalls EXCEPT ![tier][key] =
          [latest |-> now + D,
           longest |-> IF now + D > @.longest THEN now + D ELSE @.longest]]
    /\ last' = NoCall
    /\ UNCHANGED <<luma_api_key, now, op, hist, allRecorded>>

\* a caller of the limiter checks admission itself: can_make_request(key, N, W)
CheckRequest(tier, key, N) ==
    /\ LET c == can_make_request(limiter[tier], key, N, rate_limit_window_seconds, now)
       IN /\ limiter' = [limiter EXCEPT ![tier] = c.lim]
          /\ last' = Call(tier, key, N, rate_limit_window_seconds, c.ret, "caller")
    /\ UNCHANGED <<luma_api_key, now, op, hist, allRecorded, blockCalls>>

\* a caller of the limiter records a request itself: record_request(key)
RecordRequest(tier, key) ==
    /\ Len(allRecorded[tier][key]) < MaxLog
    /\ limiter' = [limiter EXCEPT ![tier] = record_request(@, key, now)]
    /\ allRecorded' = [allRecorded EXCEPT ![tier][key] = Append(@, now)]
    /\ last' = NoCall
    /\ UNCHANGED <<luma_api_key, now, op, hist, blockCalls>>

\* the program: logical operations through LumaClient; no call path of the
\* program calls block_key
Next ==
    \/ Tick
    \/ \E o \in Solo, e \in ClientKeys, m \in Methods : Start(o, e, m)
    \/ \E o \in Solo : WaitWake(o)
    \/ \E o \in Solo, res \in Results : HttpResult(o, res)
    \/ \E o \in Solo : BackoffWake(o)

Spec == Init /\ [][Next]_vars

\* what the HTTP call ends in where the limiter is the subject
LimiterResults == {res \in Results :
    \/ res.kind = "timeout"
    \/ res.kind = "response" /\ res.status = 200 /\ res.body = "array"}

\* the limiter driven through its whole interface by direct calls of
\* can_make_request, record_request and block_key
NextLimiter ==
    \/ Tick
    \/ \E t \in LimiterTiers, k \in LimiterKeys, D \in 1..MaxBlock : BlockKey(t, k, D)
    \/ \E t \in LimiterTiers, k \in LimiterKeys, N \in 1..MaxQuota : CheckRequest(t, k, N)
    \/ \E t \in LimiterTiers, k \in LimiterKeys : RecordRequest(t, k)

SpecLimiter == Init /\ [][NextLimiter]_vars

\* operations of LumaClient on keys that callers block and check
NextBlock ==
    \/ Tick
    \/ \E o \in Solo, e \in LimiterKeys, m \in LimiterMethods : Start(o, e, m)
    \/ \E o \in Solo : WaitWake(o)
    \/ \E o \in Solo, res \in LimiterResults : HttpResult(o, res)
    \/ \E o \in Solo : BackoffWake(o)
    \/ \E t \in LimiterTiers, k \in LimiterKeys, D \in 1..MaxBlock : BlockKey(t, k, D)
    \/ \E t \in LimiterTiers, k \in LimiterKeys, N \in 1..MaxQuota : CheckRequest(t, k, N)

SpecBlock == Init /\ [][NextBlock]_vars

(* ------------------------------ routes --------------------------------- *)
\* the routes that call LumaClient: those of routes/events.py, the one of
\* routes/templates.py that creates an event, and /health of main.py
Routes == {"create_event", "get_event", "update_event", "delete_event",
           "list_events", "create_from_template", "health_check"}

\* the routes of the two routers
RouterRoutes == Routes \ {"health_check"}

\* the routes whose handler answers an upstream 404 with "Event not found"
NotFoundRoutes == {"get_event", "update_event", "delete_event"}

\* the endpoint the wrapper called by the route hands to _make_request
RouteEndpoint(route) ==
    CASE route \in {"create_event", "create_from_template"} -> "event/create"
      [] route = "get_event" -> "event/get/evt-1"
      [] route = "update_event" -> "event/update/evt-1"
      [] route = "delete_event" -> "event/delete/evt-1"
      [] route = "list_events" -> "user/events"
      [] OTHER -> "user/get-self"

\* the method the wrapper called by the route hands to _make_request
RouteMethod(route) ==
    CASE route \in {"create_event", "create_from_template"} -> "POST"
      [] route = "update_event" -> "PUT"
      [] route = "delete_event" -> "DELETE"
      [] OTHER -> "GET"

\* e.status_code or 500
status_or_500(status_code) ==
    IF status_code = NoStatus \/ status_code = 0 THEN 500 ELSE status_code

\* the response of a route whose client call returned ret; valid tells whether
\* the payload has the shape the response model of the route asks for
success_response(route, ret, valid) ==
    CASE route = "health_check" -> [status |-> 200, detail |-> <<"healthy">>]
      [] route = "delete_event" ->
            [status |-> 200, detail |-> <<"Event deleted successfully">>]
      [] route = "list_events" ->
            IF valid THEN [status |-> 200, detail |-> << >>]
            ELSE IF ret.type = "dict"
                 THEN [status |-> 500,
                       detail |-> <<"Invalid response format from LUMA API">>]
                 ELSE [status |-> 500, detail |-> <<"Internal server error">>]
      [] OTHER ->
            IF ret.type = "dict" /\ valid
            THEN [status |-> 200, detail |-> << >>]
            ELSE [status |-> 500, detail |-> <<"Internal server error">>]

\* a health check that passes the status of a dispatcher error on
health_response_status(outcome) ==
    [status |-> status_or_500(outcome.status_code), detail |-> outcome.message]

\* /health: except Exception answers 503 whatever was raised
health_response(outcome) == [status |-> 503, detail |-> outcome.message]

\* a handler without the 404 branch
not_found_response_plain(outcome) ==
    [status |-> status_or_500(outcome.status_code), detail |-> outcome.message]

\* the 404 branch of get_event, update_event and delete_event
not_found_response(outcome) == [status |-> 404, detail |-> <<"Event not found">>]

\* the response the caller of the route gets once the client call has returned
\* or raised: the except clause of the route, or the exception handlers of
\* main.py for what the route does not catch
route_response(route, outcome, valid) ==
    CASE outcome.exc = "none" -> success_response(route, outcome.ret, valid)
      [] outcome.exc # "none" /\ route = "health_check" -> health_response(outcome)
      [] outcome.exc = "LumaAPIError" /\ route # "health_check" ->
            IF route \in NotFoundRoutes /\ outcome.status_code = 404
            THEN not_found_response(outcome)
            ELSE [status |-> status_or_500(outcome.status_code),
                  detail |-> outcome.message]
      [] OTHER -> [status |-> 500, detail |-> <<"Internal server error">>]

\* a request to one of the routes that take no payload into account here: the
\* client is made, then the wrapper is called
Request(o, route) ==
    /\ op[o].pc = "idle"
    /\ client_call(o, [op[o] EXCEPT !.route = route,
                                    !.endpoint = RouteEndpoint(route),
                                    !.method = RouteMethod(route)])
    /\ UNCHANGED <<luma_api_key, now, blockCalls>>

\* the route answers its caller; a cancelled request gets no answer
Respond(o, valid) ==
    /\ op[o].pc = "done"
    /\ op[o].route # ""
    /\ op[o].outcome.exc # "CancelledError"
    /\ op' = [op EXCEPT ![o].pc = "responded",
                        ![o].response = route_response(op[o].route, op[o].outcome, valid)]
    /\ last' = NoCall
    /\ UNCHANGED <<luma_api_key, now, limiter, hist, allRecorded, blockCalls>>

(* ----------------------------- templates ------------------------------- *)
TemplateTypes == {"meetup", "workshop", "conference", "social_gathering", "webinar"}

\* EVENT_TEMPLATES
EVENT_TEMPLATES ==
    [tt \in TemplateTypes |->
        CASE tt = "meetup" ->
                [default_duration_hours |-> 2, require_rsvp_approval |-> FALSE,
                 is_virtual |-> FALSE]
          [] tt = "workshop" ->
                [default_duration_hours |-> 3, require_rsvp_approval |-> TRUE,
                 is_virtual |-> TRUE]
          [] tt = "conference" ->
                [default_duration_hours |-> 8, require_rsvp_approval |-> TRUE,
                 is_virtual |-> FALSE]
          [] tt = "social_gathering" ->
                [default_duration_hours |-> 4, require_rsvp_approval |-> FALSE,
                 is_virtual |-> FALSE]
          [] OTHER ->
                [default_duration_hours |-> 1, require_rsvp_approval |-> FALSE,
                 is_virtual |-> TRUE]]

is_leap(y) == (y % 4 = 0 /\ y % 100 # 0) \/ y % 400 = 0

days_in_month(y, mo) ==
    CASE mo \in {4, 6, 9, 11} -> 30
      [] mo = 2 -> IF is_leap(y) THEN 29 ELSE 28
      [] OTHER -> 31

\* request.start_at.replace('Z', '+00:00'), on the offset the string ends in
replace_Z(s) == IF s.tz = "Z" THEN [s EXCEPT !.tz = "+00:00"] ELSE s

\* datetime.fromisoformat raises ValueError unless the fields are in range and
\* the string ends in nothing or in an offset
fromisoformat_raises(s) ==
    ~ /\ s.y \in 1..MAXYEAR
      /\ s.mo \in 1..12
      /\ s.d \in 1..days_in_month(s.y, s.mo)
      /\ s.h \in 0..23
      /\ s.tz \in {"", "+00:00", "+02:00"}

\* the day after the date of t
next_day(t) ==
    IF t.d < days_in_month(t.y, t.mo) THEN [t EXCEPT !.d = @ + 1]
    ELSE IF t.mo < 12 THEN [t EXCEPT !.d = 1, !.mo = @ + 1]
    ELSE [t EXCEPT !.d = 1, !.mo = 1, !.y = @ + 1]

RECURSIVE add_hours(_, _)
\* t + timedelta(hours = n), before the range of datetime is looked at
add_hours(t, n) ==
    IF t.h + n < 24 THEN [t EXCEPT !.h = @ + n]
    ELSE add_hours(next_day([t EXCEPT !.h = 0]), t.h + n - 24)

\* datetime + timedelta raises OverflowError past year 9999
add_raises(t, n) == add_hours(t, n).y > MAXYEAR

\* a rendering that leaves the offset as isoformat wrote it
render_offset(t) == t

\* end_time.isoformat().replace('+00:00', 'Z')
render(t) == IF t.tz = "+00:00" THEN [t EXCEPT !.tz = "Z"] ELSE t

\* event_data of create_from_template (lines 112-125)
event_data(request) ==
    LET template == EVENT_TEMPLATES[request.template_type]
        start_time == replace_Z(request.start_at)
        end_time == add_hours(start_time, template.default_duration_hours)
    IN [name |-> request.name,
        start_at |-> request.start_at,
        timezone |-> request.timezone,
        end_at |-> render(end_time),
        require_rsvp_approval |-> template.require_rsvp_approval,
        meeting_url |-> IF template.is_virtual THEN request.meeting_url ELSE "",
        geo_address_json |-> IF ~template.is_virtual
                             THEN request.geo_address_json ELSE ""]

\* POST /templates/create: the client is made (a dependency of the route), then
\* the handler derives the payload and calls create_event with it
CreateFromTemplate(o, request) ==
    /\ op[o].pc = "idle"
    /\ LET call == [op[o] EXCEPT !.route = "create_from_template",
                                 !.request = request,
                                 !.endpoint = "event/create", !.method = "POST"]
           template == EVENT_TEMPLATES[request.template_type]
       IN IF ~validate_api_key(luma_api_key)
          THEN construction_fails(o, call)
          ELSE IF fromisoformat_raises(replace_Z(request.start_at))
          THEN /\ op' = [op EXCEPT ![o] = [call EXCEPT !.pc = "responded",
                            !.response = [status |-> 400,
                                          detail |-> <<"Invalid start_at format">>]]]
               /\ last' = NoCall
               /\ UNCHANGED <<limiter, hist, allRecorded>>
          ELSE IF add_raises(replace_Z(request.start_at),
                             template.default_duration_hours)
          THEN /\ op' = [op EXCEPT ![o] = [call EXCEPT !.pc = "responded",
                            !.outcome = OtherError("OverflowError",
                                                   <<"date value out of range">>),
                            !.response = [status |-> 500,
                                          detail |-> <<"Internal server error">>]]]
               /\ last' = NoCall
               /\ UNCHANGED <<limiter, hist, allRecorded>>
          ELSE make_request(o, [call EXCEPT !.data = event_data(request)], 0)
    /\ UNCHANGED <<luma_api_key, now, blockCalls>>

\* the clock reaches the time at which the sleep of o ends
Elapse(o) ==
    /\ op[o].pc \in {"wait_sleep", "backoff"}
    /\ now < op[o].wake
    /\ now' = op[o].wake
    /\ last' = NoCall
    /\ UNCHANGED <<luma_api_key, limiter, op, hist, allRecorded, blockCalls>>

\* the task of o is cancelled at one of its suspensions: CancelledError is
\* raised at the await and no handler of the call chain catches it
Cancel(o) ==
    /\ op[o].pc \in {"wait_sleep", "http", "backoff"}
    /\ op' = [op EXCEPT ![o].pc = "done",
                        ![o].outcome = OtherError("CancelledError", << >>)]
    /\ last' = NoCall
    /\ UNCHANGED <<luma_api_key, now, limiter, hist, allRecorded, blockCalls>>

\* no operation has started
AllIdle == \A o \in Ops : op[o].pc = "idle"

\* every operation has yet to start or is at its HTTP call
NoneAsleep == \A o \in Ops : op[o].pc \in {"idle", "http"}

\* block_key before an operation starts, and the long block also while the
\* operation's HTTP call is under way
SetupBlock(tier, key, D) ==
    /\ IF D = LongBlock THEN NoneAsleep ELSE AllIdle
    /\ BlockKey(tier, key, D)

\* record_request before any operation starts
SetupRecord(tier, key) == AllIdle /\ RecordRequest(tier, key)

\* the routes whose requests wait, and the (tier, key) pairs they wait on
WaitRoutes == {"create_event", "health_check"}
WaitPairs == {<<"post", "event/create">>, <<"get", "user/get-self">>}

\* one request whose operation waits for admission on a key blocked and loaded
\* by other callers, with the clock moved from one wake-up to the next
NextWait ==
    \/ \E pair \in WaitPairs, D \in {MaxBlock, LongBlock} :
          SetupBlock(pair[1], pair[2], D)
    \/ \E t \in LimiterTiers, k \in LimiterKeys : SetupRecord(t, k)
    \/ \E o \in Solo, route \in WaitRoutes : Request(o, route)
    \/ \E o \in Solo : WaitWake(o)
    \/ \E o \in Solo, res \in LimiterResults : HttpResult(o, res)
    \/ \E o \in Solo : BackoffWake(o)
    \/ \E o \in Solo : Elapse(o)
    \/ \E o \in Solo : Cancel(o)
    \/ \E o \in Solo, valid \in BOOLEAN : Respond(o, valid)

SpecWait == Init /\ [][NextWait]_vars

\* what the HTTP call ends in where two operations share the limiters
PairResults == {res \in Results :
    res.kind = "response" /\ res.status \in {200} /\ res.body = "array"}

\* the request of the scenario: webinar, 2024-06-01T10:00:00Z
ScenarioRequest ==
    [template_type |-> "webinar", name |-> "Launch",
     start_at |-> [y |-> 2024, mo |-> 6, d |-> 1, h |-> 10, tz |-> "Z"],
     timezone |-> "UTC", meeting_url |-> "https://meet", geo_address_json |-> ""]

\* one request to one route, with everything the upstream can answer
NextRoutes ==
    \/ Tick
    \/ \E o \in Solo, route \in Routes \ {"create_from_template"} : Request(o, route)
    \/ \E o \in Solo : CreateFromTemplate(o, ScenarioRequest)
    \/ \E o \in Solo : WaitWake(o)
    \/ \E o \in Solo, res \in Results : HttpResult(o, res)
    \/ \E o \in Solo : BackoffWake(o)
    \/ \E o \in Solo, valid \in BOOLEAN : Respond(o, valid)

SpecRoutes == Init /\ [][NextRoutes]_vars

\* requests to the routes in a process whose LUMA_API_KEY may hold anything
NextConfig ==
    \/ Tick
    \/ \E o \in Solo, route \in Routes \ {"create_from_template"} : Request(o, route)
    \/ \E o \in Solo : CreateFromTemplate(o, ScenarioRequest)
    \/ \E o \in Solo : WaitWake(o)
    \/ \E o \in Solo, res \in LimiterResults : HttpResult(o, res)
    \/ \E o \in Solo : BackoffWake(o)
    \/ \E o \in Solo, valid \in BOOLEAN : Respond(o, valid)

SpecConfig == InitConfig /\ [][NextConfig]_vars

\* start_at strings on a whole hour: dates around the ends of months and years
\* and at the end of the range of datetime, some of them no dates at all, ending
\* in Z, in an offset, or in nothing
StartTimes ==
    [y : {2023, 2024, MAXYEAR}, mo : {2, 6, 12, 13}, d : {1, 28, 29, 31},
     h : {0, 10, 22, 23}, tz : {"Z", "+00:00", "+02:00", ""}]

\* request bodies of POST /templates/create
TemplateRequests ==
    [template_type : TemplateTypes, name : {"Launch"}, start_at : StartTimes,
     timezone : {"UTC"}, meeting_url : {"", "https://meet"},
     geo_address_json : {"", "place-1"}]

\* requests to create an event from a template, answered by the upstream at once
NextTemplate ==
    \/ \E o \in Solo :
          /\ op[o].pc = "idle"
          /\ \E request \in TemplateRequests : CreateFromTemplate(o, request)
    \/ \E o \in Solo, res \in PairResults : HttpResult(o, res)
    \/ \E o \in Solo, valid \in BOOLEAN : Respond(o, valid)

SpecTemplate == Init /\ [][NextTemplate]_vars

\* the methods of two operations that share the limiters
PairMethods == {"GET", "POST", "DELETE"}

\* two logical operations in flight at once, on either key and either tier
NextPair ==
    \/ Tick
    \/ \E o \in Ops, e \in ClientKeys, m \in PairMethods : Start(o, e, m)
    \/ \E o \in Ops : WaitWake(o)
    \/ \E o \in Ops, res \in PairResults : HttpResult(o, res)

SpecPair == Init /\ [][NextPair]_vars

\* two logical operations that contend for one key, with retries
NextContend ==
    \/ Tick
    \/ \E o \in Ops, e \in LimiterKeys, m \in LimiterMethods : Start(o, e, m)
    \/ \E o \in Ops : WaitWake(o)
    \/ \E o \in Ops, res \in LimiterResults : HttpResult(o, res)
    \/ \E o \in Ops : BackoffWake(o)

SpecContend == Init /\ [][NextContend]_vars

(* ------------------------ any attempt counter -------------------------- *)
\* a caller with a client calls _make_request(e, m, None, rc) itself, with any
\* attempt counter
StartAt(o, e, m, rc) ==
    /\ op[o].pc = "idle"
    /\ validate_api_key(luma_api_key)
    /\ make_request(o, [op[o] EXCEPT !.endpoint = e, !.method = m], rc)
    /\ UNCHANGED <<luma_api_key, now, blockCalls>>

\* one call of _make_request entered with a counter from 0 to max_retries + 2,
\* with everything the upstream can answer
NextGuard ==
    \/ Tick
    \/ \E o \in Solo, e \in LimiterKeys, m \in LimiterMethods,
          rc \in 0..(max_retries + 2) : StartAt(o, e, m, rc)
    \/ \E o \in Solo : WaitWake(o)
    \/ \E o \in Solo, res \in Results : HttpResult(o, res)
    \/ \E o \in Solo : BackoffWake(o)

SpecGuard == Init /\ [][NextGuard]_vars

(* ----------------------------- any method ----------------------------- *)
\* two operations on one key, with any method, answered by the upstream
NextMethod ==
    \/ Tick
    \/ \E o \in Ops, e \in LimiterKeys, m \in Methods : Start(o, e, m)
    \/ \E o \in Ops : WaitWake(o)
    \/ \E o \in Ops, res \in PairResults : HttpResult(o, res)

SpecMethod == Init /\ [][NextMethod]_vars

(* --------------------------- a loaded key ------------------------------ *)
\* other callers record requests on a key before any operation starts:
\* record_request(key), up to LongLog times
LoadKey(tier, key) ==
    /\ AllIdle
    /\ Len(allRecorded[tier][key]) < LongLog
    /\ limiter' = [limiter EXCEPT ![tier] = record_request(@, key, now)]
    /\ allRecorded' = [allRecorded EXCEPT ![tier][key] = Append(@, now)]
    /\ last' = NoCall
    /\ UNCHANGED <<luma_api_key, now, op, hist, blockCalls>>

\* one operation that waits for admission, in its first attempt or in a retry,
\* on a key that other callers have loaded and blocked
NextStep ==
    \/ \E t \in LimiterTiers, k \in LimiterKeys : LoadKey(t, k)
    \/ \E t \in LimiterTiers, k \in LimiterKeys, D \in {MaxBlock, LongBlock} :
          SetupBlock(t, k, D)
    \/ \E o \in Solo, e \in LimiterKeys, m \in LimiterMethods : Start(o, e, m)
    \/ \E o \in Solo : WaitWake(o)
    \/ \E o \in Solo, res \in LimiterResults : HttpResult(o, res)
    \/ \E o \in Solo : BackoffWake(o)
    \/ \E o \in Solo : Elapse(o)

SpecStep == Init /\ [][NextStep]_vars

\* what the HTTP call of the operation ends in: the timeout that is retried, a
\* transport error, a success and an error response
RunResults == {res \in Results :
    \/ res.kind \in {"timeout", "request_error"}
    \/ res.kind = "response" /\ res.status \in {200, 404} /\ res.body = "array"}

\* the scheduling of the event loop: every sleep ends, the clock reaches the
\* end of every sleep, and every HTTP call ends, in a response, a transport
\* error or the timeout of request_timeout_seconds
Scheduling ==
    /\ WF_vars(\E o \in Solo : Elapse(o))
    /\ WF_vars(\E o \in Solo : WaitWake(o))
    /\ WF_vars(\E o \in Solo : BackoffWake(o))
    /\ WF_vars(\E o \in Solo, res \in RunResults : HttpResult(o, res))

\* one operation from its start to its end, on a key that other callers have
\* used and blocked
NextRun ==
    \/ \E t \in LimiterTiers, k \in LimiterKeys : SetupRecord(t, k)
    \/ \E t \in LimiterTiers, k \in LimiterKeys, D \in {MaxBlock, LongBlock} :
          SetupBlock(t, k, D)
    \/ \E o \in Solo, e \in LimiterKeys, m \in LimiterMethods : Start(o, e, m)
    \/ \E o \in Solo : WaitWake(o)
    \/ \E o \in Solo, res \in RunResults : HttpResult(o, res)
    \/ \E o \in Solo : BackoffWake(o)
    \/ \E o \in Solo : Elapse(o)

SpecRun == Init /\ [][NextRun]_vars /\ Scheduling

(* ------------------------ sustained contention ------------------------- *)
\* another caller of rate_limit_request is admitted at its first check and
\* records its request, in one step
Arrive(tier, key) ==
    /\ LET c == can_make_request(limiter[tier], key, QuotaOf(tier),
                                 rate_limit_window_seconds, now)
       IN /\ c.ret
          /\ limiter' = [limiter EXCEPT ![tier] = record_request(c.lim, key, now)]
          /\ last' = Call(tier, key, QuotaOf(tier), rate_limit_window_seconds,
                          c.ret, "caller")
    /\ allRecorded' = [allRecorded EXCEPT ![tier][key] = Append(@, now)]
    /\ UNCHANGED <<luma_api_key, now, op, hist, blockCalls>>

\* the first operation has been waiting for all but the last MaxTime seconds
\* of its budget
LateInWait(first) ==
    /\ op[first].pc = "wait_sleep"
    /\ op[first].wait_count >= max_total_wait - MaxTime

\* a second operation starts on the key the first one is waiting on
LateStart(o, first, m) ==
    /\ o # first
    /\ LateInWait(first)
    /\ Start(o, op[first].endpoint, m)

\* no sleep is over, and the clock reaches the time at which the next one ends
ElapseNext(o) ==
    /\ \A other \in Ops :
          op[other].pc \in {"wait_sleep", "backoff"} =>
              now < op[other].wake /\ op[o].wake <= op[other].wake
    /\ Elapse(o)

\* an operation that waits on a key while other callers keep arriving on it,
\* and a second operation that starts late in that wait
NextStarve ==
    \/ \E t \in LimiterTiers, k \in LimiterKeys : Arrive(t, k)
    \/ \E o \in Solo, e \in LimiterKeys, m \in LimiterMethods : Start(o, e, m)
    \/ \E o \in Ops, first \in Solo, m \in LimiterMethods : LateStart(o, first, m)
    \/ \E o \in Ops : WaitWake(o)
    \/ \E o \in Ops : ElapseNext(o)
    \/ \E o \in Ops, res \in PairResults : HttpResult(o, res)

SpecStarve == Init /\ [][NextStarve]_vars

(* --------------------- the limiter under preemption -------------------- *)
\* one iteration of the loop of wait_if_needed run by a thread that can be
\* preempted when the loop ends: on admission wait_if_needed has returned and
\* record_request (line 82 or 89) is still to run
check_request(o, call, wc) ==
    LET e == call.endpoint
        tier == TierOf(call.method)
        w == wait_if_needed(limiter[tier], e, QuotaOf(tier),
                            rate_limit_window_seconds, now, wc)
        running == [call EXCEPT !.wait_count = wc,
                                !.waited = IF wc = 0 THEN 0 ELSE @]
    IN /\ last' = Call(tier, e, QuotaOf(tier), rate_limit_window_seconds,
                       w.out = "admitted", o)
       /\ limiter' = [limiter EXCEPT ![tier] = w.lim]
       /\ op' = [op EXCEPT ![o] =
             CASE w.out = "admitted" ->
                     [running EXCEPT !.pc = "admitted", !.wait_time = 0, !.waited = 0]
               [] w.out = "timeout" ->
                     [running EXCEPT !.pc = "done", !.outcome =
                         OtherError("Exception",
                             <<"Rate limiter timeout: waited too long for ", e>>)]
               [] OTHER ->
                     [running EXCEPT !.pc = "wait_sleep", !.wake = now + w.sleep,
                                     !.wait_time = w.sleep, !.waited = @ + w.sleep]]
       /\ UNCHANGED <<hist, allRecorded>>

\* a thread starts a logical operation and makes its first admission check
ParStart(o, e, m) ==
    /\ op[o].pc = "idle"
    /\ Supported(m)
    /\ check_request(o, [op[o] EXCEPT !.endpoint = e, !.method = m], 0)
    /\ UNCHANGED <<luma_api_key, now, blockCalls>>

\* the sleep of wait_if_needed is over and the thread checks again
ParWake(o) ==
    /\ op[o].pc = "wait_sleep"
    /\ now >= op[o].wake
    /\ check_request(o, op[o], op[o].wait_count + 1)
    /\ UNCHANGED <<luma_api_key, now, blockCalls>>

\* the thread runs record_request after its wait_if_needed has returned and
\* goes on to its HTTP call
ParRecord(o) ==
    /\ op[o].pc = "admitted"
    /\ LET e == op[o].endpoint
           tier == TierOf(op[o].method)
       IN /\ limiter' = [limiter EXCEPT ![tier] = record_request(@, e, now)]
          /\ allRecorded' = [allRecorded EXCEPT ![tier][e] = Append(@, now)]
    /\ op' = [op EXCEPT ![o].pc = "http"]
    /\ hist' = [hist EXCEPT ![o] = @ \o
          <<Event("admit", 0, ""), Event("record", 0, ""),
            Event("issue", op[o].retry_count, "")>>]
    /\ last' = NoCall
    /\ UNCHANGED <<luma_api_key, now, blockCalls>>

\* two operations on one key run by threads that are preempted between the
\* return of wait_if_needed and record_request
NextParallel ==
    \/ Tick
    \/ \E o \in Ops, e \in LimiterKeys, m \in LimiterMethods : ParStart(o, e, m)
    \/ \E o \in Ops : ParWake(o)
    \/ \E o \in Ops : ParRecord(o)
    \/ \E o \in Ops, res \in PairResults : HttpResult(o, res)

SpecParallel == Init /\ [][NextParallel]_vars

(* ------------------------------ claims --------------------------------- *)
\* a can_make_request call was made in the last step
Checked == last.by # ""

\* every timestamp of log lies in [lo, hi]
AllWithin(log, lo, hi) == \A i \in 1..Len(log) : lo <= log[i] /\ log[i] <= hi

\* C1 as stated: if exactly N requests were recorded for the key and all N
\* timestamps lie in the closed window [now - W, now], can_make_request(key, N, W)
\* returns false
C1_QuotaDenialClosedWindow ==
    Checked =>
        ((Len(last.recorded) = last.max_requests
          /\ AllWithin(last.recorded, now - last.window_seconds, now))
         => last.ret = FALSE)

\* C1 amended: if exactly N requests were recorded for the key and all N
\* timestamps lie in the half-open window (now - W, now], can_make_request(key,
\* N, W) returns false; a timestamp equal to now - W is pruned and does not count
C1_QuotaDenial ==
    Checked =>
        ((Len(last.recorded) = last.max_requests
          /\ AllWithin(last.recorded, now - last.window_seconds + 1, now))
         => last.ret = FALSE)

\* two requests recorded at different instants, both inside the window, the
\* key not blocked, and can_make_request(key, 2, W) has returned false
C1_Witness ==
    /\ Checked
    /\ ~last.blocked
    /\ last.max_requests = 2
    /\ Len(last.recorded) = 2
    /\ last.recorded[1] < last.recorded[2]
    /\ AllWithin(last.recorded, now - last.window_seconds + 1, now)
    /\ last.ret = FALSE

\* C2: for a key that is not blocked, every can_make_request(key, N, W) made
\* later than t + W, t being the time of the most recent record_request for the
\* key, returns true, however many requests were recorded before
C2_WindowReopens ==
    Checked =>
        ((/\ ~last.blocked
          /\ last.recorded # << >>
          /\ now > last.recorded[Len(last.recorded)] + last.window_seconds)
         => last.ret = TRUE)

\* more requests than the quota were recorded, the last more than W seconds
\* ago, and the check on the unblocked key has returned true
C2_Witness ==
    /\ Checked
    /\ ~last.blocked
    /\ Len(last.recorded) > last.max_requests
    /\ now > last.recorded[Len(last.recorded)] + last.window_seconds
    /\ last.ret = TRUE

\* the block_key calls made on the key of the last check
BlocksOfLast == blockCalls[last.tier][last.key]

\* the check of the last step admitted no request and recorded none
NothingAdmitted ==
    /\ last.ret = FALSE
    /\ allRecorded[last.tier][last.key] = last.recorded

\* C3 as stated: after any block_key(key, D) at t0, every check made at an
\* instant t with t0 <= t < t0 + D returns false and admits and records nothing
\* (every call was made at some t0 <= now, so now is inside the interval of some
\* call exactly when now < the largest t0 + D)
C3_HardBlockEveryCall ==
    Checked => (now < BlocksOfLast.longest => NothingAdmitted)

\* C3 amended: after block_key(key, D) at t0, as long as no later block_key call
\* on the key has replaced the deadline, every check made at an instant t with
\* t0 <= t < t0 + D returns false for every N and every content of the log, and
\* rate_limit_request admits and records nothing for the key
C3_HardBlock ==
    Checked => (now < BlocksOfLast.latest => NothingAdmitted)

\* an operation asked for admission on a key with an empty log in the last
\* second of a block, and was denied
C3_Witness ==
    /\ Checked
    /\ last.by \in Ops
    /\ last.recorded = << >>
    /\ now + 1 = BlocksOfLast.latest
    /\ NothingAdmitted

\* the entries of hist[o] of the given kinds, in order
Only(o, kinds) == SelectSeq(hist[o], LAMBDA ev : ev.e \in kinds)

\* the results of the HTTP calls o has made, in order
ResultsOf(o) == Only(o, {"response", "timeout", "request_error"})

\* the number of HTTP attempts o has issued
Attempts(o) == Len(Only(o, {"issue"}))

\* the number of retry backoff sleeps o has started
Sleeps(o) == Len(Only(o, {"sleep"}))

\* the i-th backoff the retry policy prescribes, i counted from 0
PrescribedBackoff(i) ==
    LET p == Pow(retry_backoff_factor, i) IN IF p < 300 THEN p ELSE 300

\* attempts and backoff sleeps alternate, attempt i made with counter i, and the
\* sleep between attempt i and attempt i+1 lasts PrescribedBackoff(i)
Alternates(o) ==
    LET steps == Only(o, {"issue", "sleep"})
    IN \A j \in 1..Len(steps) :
          IF j % 2 = 1
          THEN steps[j].e = "issue" /\ steps[j].v = (j - 1) \div 2
          ELSE steps[j].e = "sleep" /\ steps[j].v = PrescribedBackoff((j \div 2) - 1)

Is429(ev) == ev.e = "response" /\ ev.v = 429
Retryable(ev) == Is429(ev) \/ ev.e = "timeout"

\* every result o has received so far satisfies P
EveryResult(o, P(_)) == \A j \in 1..Len(ResultsOf(o)) : P(ResultsOf(o)[j])

RateLimitExceeded ==
    [exc |-> "LumaAPIError", message |-> <<"Rate limit exceeded and max retries reached">>,
     status_code |-> 429, response_data |-> NoData, ret |-> NoData]

RequestTimeout ==
    [exc |-> "LumaAPIError", message |-> <<"Request timeout and max retries reached">>,
     status_code |-> NoStatus, response_data |-> NoData, ret |-> NoData]

\* C4: against an upstream that answers every attempt with 429, an operation
\* started with counter 0 makes attempts 0..R with a sleep of min(factor^i, 300)
\* after attempt i < R, fails with RateLimitExceeded (status 429) on the answer
\* to attempt R, and raises no dispatcher error before that
C4_RetryCap429 ==
    \A o \in Ops :
        EveryResult(o, Is429) =>
            /\ Alternates(o)
            /\ Attempts(o) <= max_retries + 1
            /\ Len(ResultsOf(o)) <= max_retries =>
                    /\ Sleeps(o) = Len(ResultsOf(o))
                    /\ op[o].outcome.exc # "LumaAPIError"
            /\ Len(ResultsOf(o)) = max_retries + 1 =>
                    /\ op[o].pc = "done"
                    /\ op[o].outcome = RateLimitExceeded
                    /\ Attempts(o) = max_retries + 1
                    /\ Sleeps(o) = max_retries

\* an operation has had R + 1 answers, all 429, and has failed
C4_Witness ==
    \E o \in Ops :
        /\ EveryResult(o, Is429)
        /\ Len(ResultsOf(o)) = max_retries + 1
        /\ op[o].outcome.status_code = 429

\* the hist of o ends in a 2xx response with a JSON body, and every result
\* before it is a retryable failure
EndsInSuccess(o) ==
    /\ hist[o] # << >>
    /\ LET ev == hist[o][Len(hist[o])]
       IN ev.e = "response" /\ 200 <= ev.v /\ ev.v <= 299 /\ ev.b # "not_json"
    /\ \A j \in 1..(Len(ResultsOf(o)) - 1) : Retryable(ResultsOf(o)[j])

IsTimeout(ev) == ev.e = "timeout"

\* C6: when every attempt times out the operation makes attempts 0..R with a
\* sleep of min(factor^i, 300) after attempt i < R and fails with RequestTimeout,
\* an error without a status, on the timeout of attempt R; it never fails with
\* RequestTimeout while its attempt counter is below R
C6_TimeoutRetry ==
    \A o \in Ops :
        /\ EveryResult(o, IsTimeout) =>
            /\ Alternates(o)
            /\ Attempts(o) <= max_retries + 1
            /\ Len(ResultsOf(o)) <= max_retries =>
                    /\ Sleeps(o) = Len(ResultsOf(o))
                    /\ op[o].outcome.exc # "LumaAPIError"
            /\ Len(ResultsOf(o)) = max_retries + 1 =>
                    /\ op[o].pc = "done"
                    /\ op[o].outcome = RequestTimeout
                    /\ Attempts(o) = max_retries + 1
                    /\ Sleeps(o) = max_retries
        /\ op[o].outcome = RequestTimeout => op[o].retry_count = max_retries

\* an operation has had R + 1 timeouts and has failed with RequestTimeout
C6_Witness ==
    \E o \in Ops :
        /\ EveryResult(o, IsTimeout)
        /\ Len(ResultsOf(o)) = max_retries + 1
        /\ op[o].outcome = RequestTimeout

\* C7 as stated: every HTTP attempt is preceded by an admission and by one
\* record_request, in the order admit, record, issue, and an operation that
\* issued k HTTP attempts has appended exactly k timestamps
C7_AdmitRecordIssue ==
    \A o \in Ops :
        /\ \A j \in 1..Len(hist[o]) :
              hist[o][j].e = "issue" =>
                  /\ j >= 3
                  /\ hist[o][j - 1].e = "record"
                  /\ hist[o][j - 2].e = "admit"
        /\ Len(Only(o, {"record"})) = Attempts(o)

JsonBody(b) == b # "not_json"

\* the message and the details of the error raised at each response that is
\* neither a 2xx nor a 429, given what the message must be
UpstreamErrorWith(Message(_, _)) ==
    \A o \in Ops : \A j \in 1..Len(hist[o]) :
        LET ev == hist[o][j]
        IN (ev.e = "response" /\ ~(200 <= ev.v /\ ev.v <= 299) /\ ev.v # 429) =>
              /\ j = Len(hist[o])
              /\ op[o].pc = "done"
              /\ op[o].outcome.exc = "LumaAPIError"
              /\ op[o].outcome.status_code = ev.v
              /\ Message(ev, op[o].outcome.message)
              /\ op[o].outcome.response_data =
                    IF JsonBody(ev.b) THEN json(ev.b).value ELSE NoData

\* the message is the generic one exactly when the body is unparseable
MessageFromParseableBody(ev, message) ==
    (message = <<"API Error: ", ToString(ev.v)>>) <=> ~JsonBody(ev.b)

\* the message is the "message" member of a body that parses to an object
\* having one, and the generic one otherwise
MessageMemberOrGeneric(ev, message) ==
    message = IF ev.b = "obj_with_message" THEN json(ev.b).value.message
              ELSE <<"API Error: ", ToString(ev.v)>>

\* C8 as stated: a response that is neither a success nor 429 ends the
\* operation at that attempt with UpstreamError carrying the status, details
\* equal to the parsed body (absent when unparseable), and a message taken from
\* the body when the body is parseable and "API Error: <status>" otherwise
C8_UpstreamErrorMessageFromBody == UpstreamErrorWith(MessageFromParseableBody)

\* C8 amended: the same, but the message is the body's "message" member when
\* the body parses to an object that has one, and exactly "API Error: <status>"
\* in every other case: unparseable body, object without "message", non-object
C8_UpstreamError == UpstreamErrorWith(MessageMemberOrGeneric)

\* a 500 with an unparseable body has ended an operation with the generic
\* message and no details
C8_Witness ==
    \E o \in Ops :
        /\ hist[o] # << >>
        /\ hist[o][Len(hist[o])] = Event("response", 500, "not_json")
        /\ op[o].outcome.message = <<"API Error: ", "500">>
        /\ op[o].outcome.response_data = NoData
        /\ op[o].outcome.status_code = 500

\* C9: a transport failure that is no timeout, at any attempt counter, is the
\* last thing the operation does: it fails at once with TransportError wrapping
\* the cause, without a status, and neither an attempt nor a sleep follows
C9_TransportNotRetried ==
    \A o \in Ops : \A j \in 1..Len(hist[o]) :
        hist[o][j].e = "request_error" =>
            /\ j = Len(hist[o])
            /\ op[o].pc = "done"
            /\ op[o].outcome =
                  [exc |-> "LumaAPIError",
                   message |-> <<"Request failed: ", hist[o][j].b>>,
                   status_code |-> NoStatus, response_data |-> NoData,
                   ret |-> NoData]
            /\ Attempts(o) = op[o].retry_count + 1

\* a transport failure has ended an operation at its last allowed attempt
C9_Witness ==
    \E o \in Ops :
        /\ hist[o] # << >>
        /\ hist[o][Len(hist[o])].e = "request_error"
        /\ op[o].retry_count = max_retries
        /\ op[o].pc = "done"

\* what the operation did with each response that is no 429, given the class
\* of statuses that count as success
ClassifiedBy(Success(_)) ==
    \A o \in Ops : \A j \in 1..Len(hist[o]) :
        LET ev == hist[o][j]
        IN (ev.e = "response" /\ ev.v # 429) =>
              /\ j = Len(hist[o])
              /\ op[o].pc = "done"
              /\ Success(ev) =>
                    op[o].outcome = Returned(json(ev.b).value)
              /\ op[o].outcome.exc # "none" => ~Success(ev)

Is2xxOr3xx(ev) == 200 <= ev.v /\ ev.v <= 399
Is2xxWithJson(ev) == 200 <= ev.v /\ ev.v <= 299 /\ JsonBody(ev.b)

\* C10 as stated: every response with a 2xx or 3xx status makes the operation
\* return the decoded payload, and an error is raised only for statuses outside
\* 2xx/3xx
C10_SuccessIs2xx3xx == ClassifiedBy(Is2xxOr3xx)

\* C10 amended: every response with a 2xx status and a JSON body makes the
\* operation return the decoded payload without error; an error is raised for
\* every other response: UpstreamError with the status for a status outside 2xx
\* (3xx included; 429 once retries are exhausted), the decoder's error for a 2xx
\* whose body is no JSON
C10_SuccessIs2xx ==
    /\ ClassifiedBy(Is2xxWithJson)
    /\ \A o \in Ops :
          (hist[o] # << >> /\ hist[o][Len(hist[o])].e = "response"
              /\ hist[o][Len(hist[o])].v # 429) =>
              LET ev == hist[o][Len(hist[o])]
              IN /\ ~(200 <= ev.v /\ ev.v <= 299) =>
                      /\ op[o].outcome.exc = "LumaAPIError"
                      /\ op[o].outcome.status_code = ev.v
                 /\ (200 <= ev.v /\ ev.v <= 299 /\ ~JsonBody(ev.b)) =>
                      op[o].outcome.exc = "JSONDecodeError"

\* a 204 with a JSON body has been returned as the payload
C10_Witness ==
    \E o \in Ops :
        /\ hist[o] # << >>
        /\ hist[o][Len(hist[o])] = Event("response", 204, "obj_without_message")
        /\ op[o].outcome = Returned(json("obj_without_message").value)

\* the admission wait of o has failed with the timeout of wait_if_needed
WaitTimedOut(o) == op[o].pc = "done" /\ op[o].outcome.exc = "Exception"

\* C11 as stated: wait_if_needed fails with its timeout error as soon as the sum
\* of the durations it has suspended for exceeds 600 seconds, for blocked sleeps
\* and for 1-second polls alike: it starts no sleep once the sum exceeds 600,
\* and when it fails the sum exceeds 600 by no more than its last sleep
C11_WaitBudget ==
    \A o \in Ops :
        /\ op[o].pc = "wait_sleep" =>
              op[o].waited - op[o].wait_time <= max_total_wait
        /\ WaitTimedOut(o) =>
              /\ op[o].waited > max_total_wait
              /\ op[o].waited - op[o].wait_time <= max_total_wait

\* log is what is left of all after its oldest entries were dropped
IsSuffix(log, all) ==
    /\ Len(log) <= Len(all)
    /\ \A i \in 1..Len(log) : log[i] = all[Len(all) - Len(log) + i]

\* o was cancelled, or its admission wait timed out
Abandoned(o) ==
    op[o].pc = "done" /\ op[o].outcome.exc \in {"CancelledError", "Exception"}

\* C12: wait_if_needed appends nothing to the log: the log of every key holds
\* only timestamps that record_request calls appended, an operation has appended
\* as many timestamps as it was granted admissions, and when it is cancelled in
\* an admission wait or a backoff sleep, or its admission wait times out, it has
\* appended one timestamp per HTTP attempt it issued and none for the attempt
\* that was not issued
C12_NoRecordUnlessAdmitted ==
    /\ \A t \in Tiers, k \in Keys :
          IsSuffix(limiter[t].requests[k], allRecorded[t][k])
    /\ \A o \in Ops :
          /\ Len(Only(o, {"record"})) = Len(Only(o, {"admit"}))
          /\ Abandoned(o) => Len(Only(o, {"record"})) = Attempts(o)
          /\ op[o].pc \in {"wait_sleep", "backoff"} =>
                Len(Only(o, {"record"})) = Attempts(o)

\* an operation has been cancelled in the admission wait of its second
\* attempt, after one attempt and one backoff sleep
C12_Witness ==
    \E o \in Ops :
        /\ op[o].outcome.exc = "CancelledError"
        /\ op[o].retry_count = 1
        /\ op[o].waited >= 1
        /\ Attempts(o) = 1
        /\ Len(allRecorded[TierOf(op[o].method)][op[o].endpoint]) = 1

\* C13: for a fixed key, N and W, a can_make_request call leaves the limiter as
\* a second call at the same instant leaves it and returns what that second call
\* returns, and at every later instant a call returns the same, and leaves the
\* same limiter, whether or not an earlier call was made: pruning and the
\* removal of an expired block change no admission decision
C13_CheckIdempotent ==
    \A t \in LimiterTiers, k \in LimiterKeys, N \in 0..MaxQuota,
       W \in 1..rate_limit_window_seconds :
        LET first == can_make_request(limiter[t], k, N, W, now)
            second == can_make_request(first.lim, k, N, W, now)
        IN /\ second.ret = first.ret
           /\ second.lim = first.lim
           /\ \A later \in now..MaxTime :
                 can_make_request(first.lim, k, N, W, later)
                    = can_make_request(limiter[t], k, N, W, later)

\* a check has pruned the log of a key and found the block on it expired
C13_Witness ==
    /\ Checked
    /\ Len(limiter[last.tier].requests[last.key]) < Len(last.recorded)
    /\ BlocksOfLast.latest > 0
    /\ last.key \notin DOMAIN limiter[last.tier].blocked_until
    /\ last.ret = TRUE

\* the last step checked a key after the block set by the latest block_key call
\* on it had run out
CheckedAfterBlock ==
    /\ Checked
    /\ BlocksOfLast.latest > 0
    /\ now > BlocksOfLast.latest

\* the number of timestamps recorded for the key of the last check that are
\* later than now - W
InWindowOfLast ==
    Cardinality({i \in 1..Len(last.recorded) :
                    last.recorded[i] > now - last.window_seconds})

\* C14 as stated: after block_key(key, D) at t0 and no later block_key call,
\* can_make_request(key, N, W) returns true at every instant after t0 + D
C14_BlockExpiryAlwaysAdmits == CheckedAfterBlock => last.ret = TRUE

\* C14 amended: after block_key(key, D) at t0 and no later block_key call, at
\* every instant after t0 + D the block no longer decides: can_make_request(key,
\* N, W) returns true exactly when fewer than N recorded timestamps are later
\* than now - W
C14_BlockExpiry == CheckedAfterBlock => (last.ret = (InWindowOfLast < last.max_requests))

\* one second after the end of a block a check on a key with a recorded
\* request has returned true
C14_Witness ==
    /\ CheckedAfterBlock
    /\ now = BlocksOfLast.latest + 1
    /\ last.recorded # << >>
    /\ last.ret = TRUE

\* the block entry of key k is the same in both limiter states
SameBlock(lim1, lim2, k) ==
    /\ (k \in DOMAIN lim1.blocked_until) = (k \in DOMAIN lim2.blocked_until)
    /\ k \in DOMAIN lim1.blocked_until => lim1.blocked_until[k] = lim2.blocked_until[k]

\* on every limiter state reached: a block, a check and a record on one key
\* leave the log and the block entry of every other key as they were, and the
\* check returns what it returns without the block on the other key
KeysApart ==
    \A t \in Tiers, k \in ClientKeys, D \in 1..MaxBlock :
      \A other \in ClientKeys \ {k} :
        LET blocked == block_key(limiter[t], other, D, now)
            c == can_make_request(blocked, k, QuotaOf(t), rate_limit_window_seconds, now)
            r == record_request(c.lim, k, now)
        IN /\ r.requests[other] = limiter[t].requests[other]
           /\ SameBlock(r, blocked, other)
           /\ SameBlock(blocked, limiter[t], k)
           /\ c.ret = can_make_request(limiter[t], k, QuotaOf(t),
                                       rate_limit_window_seconds, now).ret

\* in every step: an operation that asks for admission does so on the read
\* tier with the read quota when its method is GET and on the write tier with
\* the write quota when it is POST, PUT or DELETE, and the log, the block entry
\* and the admission decision of every other (tier, key) pair stay as they were
TiersApart ==
    /\ \A o \in Ops :
          last'.by = o =>
              /\ last'.key = op'[o].endpoint
              /\ op'[o].method \in {"GET", "get"} =>
                    /\ last'.tier = "get"
                    /\ last'.max_requests = rate_limit_get_requests
              /\ op'[o].method \in {"POST", "PUT", "DELETE"} =>
                    /\ last'.tier = "post"
                    /\ last'.max_requests = rate_limit_post_requests
    /\ \A t \in Tiers, k \in Keys :
          ~(last'.tier = t /\ last'.key = k) =>
              /\ limiter'[t].requests[k] = limiter[t].requests[k]
              /\ SameBlock(limiter'[t], limiter[t], k)
              /\ allRecorded'[t][k] = allRecorded[t][k]
              /\ now' = now =>
                    can_make_request(limiter'[t], k, QuotaOf(t),
                                     rate_limit_window_seconds, now).ret
                    = can_make_request(limiter[t], k, QuotaOf(t),
                                       rate_limit_window_seconds, now).ret

\* C15: a GET request is admitted and recorded only on the read-tier limiter
\* with the read quota, a POST, PUT or DELETE request only on the write-tier
\* limiter with the write quota, and a check or a record for one (tier, key)
\* pair leaves the log, the block entry and the admission decision of the other
\* tier and of every other key unchanged
C15_TierKeyIsolation == [][TiersApart]_vars /\ []KeysApart

\* a GET has been admitted on the read tier for a key whose write-tier log
\* holds the timestamp of another operation, and that log is untouched
C15_Witness ==
    /\ Checked
    /\ last.by \in Ops
    /\ last.tier = "get"
    /\ last.ret = TRUE
    /\ Len(allRecorded["get"][last.key]) = 1
    /\ Len(limiter["post"].requests[last.key]) = 1
    /\ Len(allRecorded["post"][last.key]) = 1

\* the admission wait of an attempt of o has failed with the limiter's timeout
TimedOut(o) == op[o].outcome.exc = "Exception"

\* what holds of an operation whose admission wait timed out, whatever the
\* status of the response is to be: the attempt it waited for was not issued and
\* nothing was recorded for it, the operation has ended there, its error is no
\* LumaAPIError and carries no status, and the caller is answered with Status
LocalTimeoutWith(Status(_)) ==
    \A o \in Ops :
        TimedOut(o) =>
            /\ op[o].pc \in {"done", "responded"}
            /\ Attempts(o) = op[o].retry_count
            /\ Len(Only(o, {"record"})) = op[o].retry_count
            /\ Sleeps(o) = op[o].retry_count
            /\ op[o].outcome.status_code = NoStatus
            /\ op[o].outcome # RateLimitExceeded
            /\ op[o].pc = "responded" => op[o].response.status = Status(op[o].route)

Always500(route) == 500
UnhealthyOr500(route) == IF route = "health_check" THEN 503 ELSE 500

\* C16 as stated: when the admission wait of an attempt exceeds its budget the
\* operation fails without issuing the HTTP call of that attempt and without
\* retrying, with an error that carries no 429 status, and the caller gets
\* status 500
C16_LocalTimeoutIs500 == LocalTimeoutWith(Always500)

\* C16 amended: the same, and the caller gets status 500 from the routes of the
\* events and templates routers and status 503 from the health check
C16_LocalTimeout == LocalTimeoutWith(UnhealthyOr500)

\* the admission wait of the second attempt of a create request has timed out
\* after 601 seconds and the caller has been answered with 500
C16_Witness ==
    \E o \in Ops :
        /\ TimedOut(o)
        /\ op[o].route = "create_event"
        /\ op[o].retry_count = 1
        /\ op[o].waited > max_total_wait
        /\ Attempts(o) = 1
        /\ op[o].response.status = 500

(* --------------------------- C17: status mapping ------------------------ *)
\* every answer to a dispatcher error on a route of RouteSet has the status the
\* error maps to
MappedOn(RouteSet) ==
    \A o \in Ops :
        (/\ op[o].pc = "responded"
         /\ op[o].route \in RouteSet
         /\ op[o].outcome.exc = "LumaAPIError") =>
            LET status_code == op[o].outcome.status_code
                response == op[o].response
            IN /\ (op[o].route \in NotFoundRoutes /\ status_code = 404) =>
                      /\ response.status = 404
                      /\ response.detail = <<"Event not found">>
               /\ status_code # NoStatus => response.status = status_code
               /\ status_code = NoStatus => response.status = 500

\* C17 as stated: on the get, update and delete routes an upstream 404 is
\* answered with 404 "Event not found"; on every route that calls the
\* dispatcher a dispatcher error with a status is answered with that status and
\* one without a status with 500
C17_StatusMappingEveryRoute == MappedOn(Routes)

\* C17: on the get, update and delete routes an upstream 404 is answered with
\* 404 "Event not found"; on every route of the events and templates routers a
\* dispatcher error with a status (429 after exhausted retries included) is
\* answered with that status and one without a status (timeout, transport
\* failure) with 500
C17_StatusMapping == MappedOn(RouterRoutes)

\* the upstream answered a get-by-id with 404 and the caller got 404 "Event not
\* found"
C17_Witness ==
    \E o \in Ops :
        /\ op[o].pc = "responded"
        /\ op[o].route = "get_event"
        /\ op[o].outcome.exc = "LumaAPIError"
        /\ op[o].outcome.status_code = 404
        /\ op[o].response = [status |-> 404, detail |-> <<"Event not found">>]

(* ------------------------ C18: configuration error ---------------------- *)
\* key is empty or holds nothing but whitespace
IsBlank(key) == \A i \in 1..Len(key) : key[i] \in Whitespace

\* C18: when the configured API key is empty or only whitespace,
\* validate_api_key returns false and every construction of the client fails
\* with ValueError, so that no admission check is made, nothing is recorded on
\* either limiter and no HTTP attempt is issued for any operation
C18_ConfigErrorFirst ==
    IsBlank(luma_api_key) =>
        /\ ~validate_api_key(luma_api_key)
        /\ last = NoCall
        /\ limiter = [t \in Tiers |-> NewLimiter]
        /\ allRecorded = [t \in Tiers |-> [k \in Keys |-> << >>]]
        /\ \A o \in Ops :
              /\ hist[o] = << >>
              /\ op[o].pc \in {"idle", "done", "responded"}
              /\ op[o].pc # "idle" => op[o].outcome.exc = "ValueError"

\* the key is whitespace only and a request to a route of the events router has
\* been answered with 500 after the construction of its client failed
C18_Witness ==
    /\ luma_api_key = <<" ", "\t">>
    /\ \E o \in Ops :
          /\ op[o].pc = "responded"
          /\ op[o].route = "create_event"
          /\ op[o].outcome.exc = "ValueError"
          /\ op[o].response.status = 500
          /\ hist[o] = << >>

(* ------------------------- C19: template payload ------------------------ *)
\* the proleptic Gregorian ordinal of the date of t, in hours, plus its hour
OrdinalHours(t) ==
    LET y1 == t.y - 1
        before(mo) == IF mo = 1 THEN 0 ELSE
            LET RECURSIVE sum(_)
                sum(m) == IF m = 0 THEN 0 ELSE days_in_month(t.y, m) + sum(m - 1)
            IN sum(mo - 1)
    IN (365 * y1 + (y1 \div 4) - (y1 \div 100) + (y1 \div 400)
        + before(t.mo) + t.d) * 24 + t.h

\* s is a date and time on a whole hour written in the UTC 'Z' form
ValidZ(s) ==
    /\ s.y \in 1..MAXYEAR
    /\ s.mo \in 1..12
    /\ s.d \in 1..days_in_month(s.y, s.mo)
    /\ s.h \in 0..23
    /\ s.tz = "Z"

\* the create payload of o has reached the limiter or the upstream, with end_at
\* the start plus the template's duration in the 'Z' form and with the
\* template's approval flag
PayloadSent(o) ==
    LET request == op[o].request
        template == EVENT_TEMPLATES[request.template_type]
        data == op[o].data
    IN /\ Attempts(o) >= 1 \/ op[o].pc = "wait_sleep"
       /\ data.start_at = request.start_at
       /\ ValidZ(data.end_at)
       /\ OrdinalHours(data.end_at) =
             OrdinalHours(request.start_at) + template.default_duration_hours
       /\ data.require_rsvp_approval = template.require_rsvp_approval

\* the requests C19 is about past the construction of the client: a template
\* type and a valid start time on a whole hour in the 'Z' form
TemplateCase(o) ==
    /\ op[o].route = "create_from_template"
    /\ validate_api_key(luma_api_key)
    /\ ValidZ(op[o].request.start_at)

\* C19 as stated: for every template type and every valid start time on a whole
\* hour, create-from-template sends a create payload whose end_at is start_at
\* plus the template's default duration in the same 'Z' form and whose
\* require_rsvp_approval is the template's flag
C19_TemplatePayload == \A o \in Ops : TemplateCase(o) => PayloadSent(o)

\* what holds of C19: the payload is as stated whenever start_at plus the
\* duration is no later than year 9999
C19_TemplatePayloadInRange ==
    \A o \in Ops :
        (/\ TemplateCase(o)
         /\ ~add_raises(replace_Z(op[o].request.start_at),
                        EVENT_TEMPLATES[op[o].request.template_type]
                            .default_duration_hours)) => PayloadSent(o)

\* the scenario of C19: webinar, 2024-06-01T10:00:00Z gives end_at
\* 2024-06-01T11:00:00Z and require_rsvp_approval false
C19_Scenario ==
    \A o \in Ops :
        (/\ TemplateCase(o)
         /\ op[o].request.template_type = "webinar"
         /\ op[o].request.start_at = [y |-> 2024, mo |-> 6, d |-> 1, h |-> 10, tz |-> "Z"]) =>
            /\ op[o].data.end_at = [y |-> 2024, mo |-> 6, d |-> 1, h |-> 11, tz |-> "Z"]
            /\ op[o].data.require_rsvp_approval = FALSE

\* a webinar that starts at 9999-12-31T23:00:00Z has been answered with 500
\* and no payload has been sent
C19_Witness ==
    \E o \in Ops :
        /\ TemplateCase(o)
        /\ op[o].request.template_type = "webinar"
        /\ op[o].request.start_at = [y |-> MAXYEAR, mo |-> 12, d |-> 31, h |-> 23, tz |-> "Z"]
        /\ op[o].pc = "responded"
        /\ op[o].outcome.exc = "OverflowError"
        /\ op[o].response.status = 500
        /\ Attempts(o) = 0
        /\ op[o].data = NoPayload

(* -------------------------- C20: no over-admission ---------------------- *)
\* the number of timestamps ever recorded for key on tier that lie in the
\* window of _clean_old_requests, the times later than cutoff_time
RecordedSince(tier, key, cutoff_time) ==
    Cardinality({i \in 1..Len(allRecorded[tier][key]) :
        allRecorded[tier][key][i] > cutoff_time})

\* C20: with operations that run concurrently on one key and yield only at
\* their admission-wait sleeps, HTTP calls and backoff sleeps, at every instant
\* at most maxRequests of the timestamps recorded for the key lie in the
\* trailing window of W seconds
C20_NoOverAdmission ==
    \A tier \in Tiers, key \in Keys :
        RecordedSince(tier, key, now - rate_limit_window_seconds) <= QuotaOf(tier)

\* two operations contend for one key: one has recorded its request and is at
\* its HTTP call, the quota of the window is used up, and the other has been
\* denied and sleeps in its admission wait
C20_Witness ==
    \E o \in Ops, other \in Ops :
        /\ o # other
        /\ op[o].endpoint = op[other].endpoint
        /\ TierOf(op[o].method) = TierOf(op[other].method)
        /\ op[o].pc = "http"
        /\ op[other].pc = "wait_sleep"
        /\ RecordedSince(TierOf(op[o].method), op[o].endpoint,
                         now - rate_limit_window_seconds)
              = QuotaOf(TierOf(op[o].method))

(* ------------------------ C21: check-then-act race ---------------------- *)
\* more timestamps than the quota of the tier lie in the window of key
OverAdmitted(tier, key) ==
    RecordedSince(tier, key, now - rate_limit_window_seconds) > QuotaOf(tier)

\* o runs record_request in this step
Records(o) == op[o].pc = "admitted" /\ op'[o].pc = "http"

\* the admission o was given no longer holds: a check made now would deny it
Stale(o) ==
    ~can_make_request(limiter[TierOf(op[o].method)], op[o].endpoint,
                      QuotaOf(TierOf(op[o].method)),
                      rate_limit_window_seconds, now).ret

\* every step that takes a key over its quota is the record_request of an
\* operation whose admission another operation has made stale
RaceSteps ==
    \A tier \in Tiers, key \in Keys :
        (~OverAdmitted(tier, key) /\ OverAdmitted(tier, key)') =>
            \E o \in Ops :
                /\ Records(o)
                /\ TierOf(op[o].method) = tier
                /\ op[o].endpoint = key
                /\ Stale(o)

\* C21: when operations on one key can interleave between the admitting
\* can_make_request and record_request, a key is taken over its quota, and only
\* by a record_request that follows another operation's record_request made
\* after the admitting check
C21_CheckThenActRace == [][RaceSteps]_vars

\* both operations were admitted on one key and have recorded: more timestamps
\* than the quota lie in the window
C21_Witness ==
    \E o \in Ops, other \in Ops :
        /\ o # other
        /\ op[o].endpoint = op[other].endpoint
        /\ TierOf(op[o].method) = TierOf(op[other].method)
        /\ Attempts(o) = 1
        /\ Attempts(other) = 1
        /\ OverAdmitted(TierOf(op[o].method), op[o].endpoint)

(* --------------------------- C22: unfair admission ---------------------- *)
\* every admission check is decided by the block and the window of the key at
\* the instant of the check, whoever else is waiting on the key and for however
\* long: there is no queue
C22_NoQueue ==
    Checked => (last.ret = (~last.blocked /\ InWindowOfLast < last.max_requests))

\* later started waiting on the key of earlier while earlier was waiting, and
\* was admitted after at least one sleep while earlier still waits
LaterFirst(earlier, later) ==
    /\ earlier # later
    /\ op[earlier].endpoint = op[later].endpoint
    /\ TierOf(op[earlier].method) = TierOf(op[later].method)
    /\ op[earlier].pc = "wait_sleep"
    /\ op[later].pc \in {"http", "done"}
    /\ Attempts(later) = 1
    /\ op[later].wait_count >= 1
    /\ op[later].wait_count < op[earlier].wait_count

\* an operation that started waiting later has been admitted while one that
\* started waiting earlier on the same key still waits
C22_LaterFirst == \E earlier \in Ops, later \in Ops : LaterFirst(earlier, later)

\* C22 witness: the operation that started waiting first was denied at all its
\* 602 checks and has ended in the admission timeout, while other callers were
\* admitted on the key during its wait and the operation that started waiting
\* later has been admitted and has its response
C22_Witness ==
    \E earlier \in Ops, later \in Ops :
        /\ earlier # later
        /\ op[earlier].endpoint = op[later].endpoint
        /\ TierOf(op[earlier].method) = TierOf(op[later].method)
        /\ TimedOut(earlier)
        /\ op[earlier].wait_count = max_total_wait + 1
        /\ Attempts(earlier) = 0
        /\ op[later].pc = "done"
        /\ op[later].outcome.exc = "none"
        /\ Attempts(later) = 1
        /\ op[later].wait_count \in 1..MaxTime
        /\ Len(allRecorded[TierOf(op[later].method)][op[later].endpoint])
              > max_total_wait \div (2 * rate_limit_window_seconds)

(* ----------------------------- C23: stale entries ----------------------- *)
\* requestLog[key] of the key of the last check, as the check left it
LogOfLast == limiter[last.tier].requests[last.key]

\* the log the last check left holds no timestamp older than the window
NoStaleOfLast ==
    \A i \in 1..Len(LogOfLast) : LogOfLast[i] >= now - last.window_seconds

\* C23 as stated: after every call of can_make_request(key, N, W), whatever it
\* returns and whether or not the key is blocked, requestLog[key] holds no
\* timestamp older than the window
C23_NoStaleAfterCheck == Checked => NoStaleOfLast

\* what holds of C23: a call on a key that is not blocked at the instant of the
\* call leaves no timestamp older than the window, whatever it returns
C23_NoStaleUnlessBlocked == (Checked /\ ~last.blocked) => NoStaleOfLast

\* a check on a blocked key has returned false and has left in the log a
\* timestamp older than the window
C23_Witness ==
    /\ Checked
    /\ last.blocked
    /\ last.ret = FALSE
    /\ \E i \in 1..Len(LogOfLast) : LogOfLast[i] < now - last.window_seconds

(* -------------------------- C24: admission wait step -------------------- *)
\* o was denied admission in the last step and has gone to sleep
DeniedToSleep(o) == last.by = o /\ ~last.ret /\ op[o].pc = "wait_sleep"

\* C24: in every iteration of wait_if_needed that is denied and suspends, the
\* sleep is min(backoffFactor^L, 300) seconds when the key is blocked, L the
\* number of entries of requestLog[key], and 1 second when the key is not
\* blocked; it is never longer than 300 seconds and the attempt counter of the
\* operation has no part in it
C24_WaitStep ==
    \A o \in Ops :
        DeniedToSleep(o) =>
            /\ op[o].wait_time =
                  (IF last.blocked
                   THEN Min(Pow(retry_backoff_factor, Len(LogOfLast)), 300)
                   ELSE 1)
            /\ op[o].wait_time <= 300
            /\ op[o].wake = now + op[o].wait_time

\* an operation was denied on a blocked key whose log holds nine entries and
\* sleeps 300 seconds, not the 512 of the power and not the 1 second of the
\* retry backoff of its attempt counter
C24_Witness ==
    \E o \in Ops :
        /\ DeniedToSleep(o)
        /\ last.blocked
        /\ Len(LogOfLast) = 9
        /\ Pow(retry_backoff_factor, Len(LogOfLast)) = 512
        /\ op[o].wait_time = 300
        /\ backoff(op[o].retry_count) = 1

(* ------------------------------ C25: termination ------------------------ *)
\* o has issued at most max_retries + 1 HTTP attempts, its current admission
\* wait has suspended at most 601 times, and once resolved it has the payload
\* or an error
Bounded(o) ==
    /\ Attempts(o) <= max_retries + 1
    /\ op[o].wait_count <= max_total_wait + 1
    /\ op[o].pc = "done" => op[o].outcome.exc # "pending"

\* C25: every logical operation started with attempt counter 0 issues at most
\* R + 1 HTTP attempts, each of its admission waits ends after at most 601
\* suspensions, and it eventually resolves with the payload or an error
C25_Terminates ==
    /\ [](\A o \in Ops : Bounded(o))
    /\ \A o \in Ops : (op[o].pc # "idle") ~> (op[o].pc = "done")

\* an operation has resolved with the timeout error of its admission wait
\* after 601 suspensions in its last attempt, having issued R HTTP attempts
C25_Witness ==
    \E o \in Ops :
        /\ op[o].pc = "done"
        /\ TimedOut(o)
        /\ op[o].wait_count = max_total_wait + 1
        /\ op[o].retry_count = max_retries
        /\ Attempts(o) = max_retries

(* --------------------------- C26: chronological log --------------------- *)
\* the timestamps of log are non-decreasing in insertion order
Chronological(log) ==
    \A i \in 1..Len(log), j \in 1..Len(log) : i < j => log[i] <= log[j]

RECURSIVE IsSubsequence(_, _)
\* short is long with some entries removed and the others in their order
IsSubsequence(short, long) ==
    IF short = << >> THEN TRUE
    ELSE IF long = << >> THEN FALSE
    ELSE IF Head(short) = Head(long)
         THEN IsSubsequence(Tail(short), Tail(long))
              \/ IsSubsequence(short, Tail(long))
         ELSE IsSubsequence(short, Tail(long))

\* a step leaves every log as it was with some entries removed, and with the
\* current time appended at its end if it records a request
AppendsOrPrunes ==
    \A tier \in Tiers, key \in Keys :
        LET before == limiter[tier].requests[key]
            after == limiter'[tier].requests[key]
        IN \/ IsSubsequence(after, before)
           \/ /\ after # << >>
              /\ after[Len(after)] = now
              /\ IsSubsequence(SubSeq(after, 1, Len(after) - 1), before)
              /\ allRecorded'[tier][key] = Append(allRecorded[tier][key], now)

\* C26: in every reachable state the timestamps of requestLog[key] are
\* non-decreasing in insertion order for every key; record_request only appends
\* the current time at the end and pruning removes entries without reordering
\* the others
C26_ChronologicalLog ==
    /\ [](\A tier \in Tiers, key \in Keys :
             Chronological(limiter[tier].requests[key]))
    /\ [][AppendsOrPrunes]_vars

\* a check has pruned the older of two timestamps recorded at different times
\* and has kept the later one, and the log before it held both in their order
C26_Witness ==
    /\ Checked
    /\ Len(last.recorded) = 2
    /\ last.recorded[1] < last.recorded[2]
    /\ LogOfLast = <<last.recorded[2]>>

(* --------------------------- C27: max-retries guard --------------------- *)
MaxRetriesExceeded ==
    LumaAPIError(<<"Maximum retry attempts exceeded">>, NoStatus, NoData)

\* o fails with MaxRetriesExceeded exactly when it has been entered with a
\* counter greater than max_retries, and then it has tried nothing
GuardOnEntry(o) ==
    /\ op[o].outcome = MaxRetriesExceeded <=>
          (op[o].pc # "idle" /\ op[o].retry_count > max_retries)
    /\ op[o].outcome = MaxRetriesExceeded =>
          /\ op[o].pc = "done"
          /\ hist[o] = << >>

\* the step in which o fails with MaxRetriesExceeded is its entry, and it makes
\* no admission check and records nothing
GuardStep(o) ==
    (op[o].outcome # MaxRetriesExceeded /\ op'[o].outcome = MaxRetriesExceeded) =>
        /\ op[o].pc = "idle"
        /\ last' = NoCall
        /\ limiter' = limiter
        /\ allRecorded' = allRecorded

\* the counter of a started operation changes only by a retry, which adds one
\* to a counter smaller than max_retries
RetryStep(o) ==
    (op[o].pc # "idle" /\ op'[o].retry_count # op[o].retry_count) =>
        /\ op[o].retry_count < max_retries
        /\ op'[o].retry_count = op[o].retry_count + 1

\* C27: _make_request fails with MaxRetriesExceeded exactly when it is entered
\* with an attempt counter greater than R, before any admission check, record
\* or HTTP call; a retry starts only from a counter smaller than R, so an
\* operation entered with a counter of at most R, 0 included, never fails with
\* MaxRetriesExceeded
C27_GuardNeverFires ==
    /\ [](\A o \in Ops : GuardOnEntry(o))
    /\ [][\A o \in Ops : GuardStep(o) /\ RetryStep(o)]_vars

\* an operation entered with counter 0 has used all its retries and has failed
\* with the error of its last result, not with MaxRetriesExceeded
C27_Witness ==
    \E o \in Ops :
        /\ op[o].pc = "done"
        /\ Attempts(o) = max_retries + 1
        /\ op[o].retry_count = max_retries
        /\ op[o].outcome \in {RateLimitExceeded, RequestTimeout}
        /\ op[o].outcome # MaxRetriesExceeded

(* --------------------------- C28: unsupported method -------------------- *)
\* the method of o is none of GET, POST, PUT and DELETE
Unsupported(o) == upper(op[o].method) \notin {"GET", "POST", "PUT", "DELETE"}

\* o has failed with the ValueError of the method dispatch
MethodError(o) ==
    /\ op[o].pc = "done"
    /\ op[o].outcome =
          OtherError("ValueError", <<"Unsupported HTTP method: ", op[o].method>>)

\* an operation with an unsupported method waits for admission on the write
\* tier or has failed with the configuration error after one admission and one
\* record, with no HTTP call, no backoff sleep and no retry
NeverIssued(o) ==
    /\ TierOf(op[o].method) = "post"
    /\ op[o].pc \in {"wait_sleep", "done"}
    /\ op[o].retry_count = 0
    /\ Attempts(o) = 0
    /\ Sleeps(o) = 0
    /\ ResultsOf(o) = << >>
    /\ op[o].pc = "wait_sleep" => hist[o] = << >>
    /\ op[o].pc = "done" =>
          /\ MethodError(o)
          /\ hist[o] = <<Event("admit", 0, ""), Event("record", 0, "")>>

\* the step in which o fails records the current time in the write-tier log of
\* its endpoint and leaves the read tier alone
RecordedOnFailure(o) ==
    (Unsupported(o)' /\ ~MethodError(o) /\ MethodError(o)') =>
        LET e == op'[o].endpoint
            log == limiter'["post"].requests[e]
        IN /\ log # << >>
           /\ log[Len(log)] = now
           /\ allRecorded'["post"][e] = Append(allRecorded["post"][e], now)
           /\ limiter'["get"] = limiter["get"]
           /\ ~can_make_request(limiter'["post"], e, Len(InWindow(log, now - rate_limit_window_seconds)),
                                rate_limit_window_seconds, now).ret

\* C28: a request whose method is none of GET, POST, PUT and DELETE is admitted
\* and recorded exactly once on the write-tier limiter under its endpoint, then
\* fails with a configuration error with no HTTP call, no backoff sleep and no
\* retry; its timestamp is in the log and counts against the write-tier quota
C28_UnsupportedMethod ==
    /\ [](\A o \in Ops : (Unsupported(o) /\ op[o].pc # "idle") => NeverIssued(o))
    /\ [][\A o \in Ops : RecordedOnFailure(o)]_vars

\* a PATCH request has failed with the configuration error, its timestamp is
\* the only one recorded on the write tier for the key, and a POST on the same
\* key has been denied because of it and sleeps
C28_Witness ==
    \E o \in Ops, other \in Ops :
        /\ o # other
        /\ op[o].method = "PATCH"
        /\ MethodError(o)
        /\ op[other].method = "POST"
        /\ op[other].endpoint = op[o].endpoint
        /\ op[other].pc = "wait_sleep"
        /\ hist[other] = << >>
        /\ Len(allRecorded["post"][op[o].endpoint]) = 1
        /\ allRecorded["get"][op[o].endpoint] = << >>

====
